---- MODULE Spec2Model ----
(***************************************************************************)
(* A model of json-rust's write/representation core:                       *)
(*   - StrMap (src/src/object.rs): the hash-ordered binary tree over an    *)
(*     insertion-ordered Vec of nodes, with inline / heap key storage;     *)
(*   - the fluent writer (src/src/writer/mod.rs) driving a DumpGenerator.  *)
(*                                                                         *)
(* Rust indices are 0-based: the node at index i is store[i + 1], and a    *)
(* left / right link of 0 means "no child".                                *)
(***************************************************************************)
EXTENDS Integers, Sequences, FiniteSets, TLC

(***************************************************************************)
(* Bounds of the model.                                                    *)
(***************************************************************************)
\* the largest number of entries a map is grown to
MaxLen == 3
\* hashes are FNV-1a truncated to their HashBits low bits
HashBits == 8
\* the largest number of calls made on one builder
MaxCalls == 8
\* the deepest nesting of containers a builder is driven to
MaxDepth == 2
\* the nodes of a serialized value tree
MaxNodes == 4
\* the indentation depth a serialization starts from
MaxDent == 1
\* the most writes a failing sink accepts before it fails
MaxWrites == 2
\* the most writes the sink of one serialization accepts before it fails
MaxSinkWrites == 4
\* the longest string converted and compared
MaxStrLen == 31

(***************************************************************************)
(* Program constants.                                                      *)
(***************************************************************************)
KEY_BUF_LEN == 32
\* the low 16 bits of the FNV offset basis 0xcbf29ce484222325
FnvOffsetLow == 8997
\* the low 16 bits of the FNV prime 0x100000001b3
FnvPrimeLow == 435
\* JsonValue::Null, which is also V::default() of Object = StrMap<JsonValue>
Null == 0

HashMod == 2 ^ HashBits

\* the values stored: JsonValue::Null and a number
Values == {Null, 1}

\* Option<T>: None is <<>>, Some(x) is <<x>>
None == <<>>
Some(x) == <<x>>

(***************************************************************************)
(* The keys the operations are called with.  A key's content is interned:  *)
(* a name stands for its byte string KeyBytes[name], and copying or        *)
(* comparing the bytes is copying or comparing the name.  "a" and "gb" are *)
(* short keys whose hashes collide in their low bits, "k32" has exactly    *)
(* KEY_BUF_LEN bytes (and a smaller hash), "k33" has KEY_BUF_LEN + 1 bytes *)
(* (and a larger hash).                                                    *)
(***************************************************************************)
Keys == {"a", "gb", "k32", "k33"}

KeyBytes ==
    [k \in Keys |->
        CASE k = "a" -> <<97>>
          [] k = "gb" -> <<103, 98>>
          [] k = "k32" -> [i \in 1 .. KEY_BUF_LEN |-> 99]
          [] k = "k33" -> [i \in 1 .. KEY_BUF_LEN + 1 |-> 98]]

\* key.len()
key_len(key) == Len(KeyBytes[key])

\* what a read of uninitialised or released memory yields: no key's bytes
Garbage == "garbage"

RECURSIVE BitXor(_, _)
BitXor(a, b) ==
    IF a = 0 THEN b
    ELSE IF b = 0 THEN a
    ELSE (((a % 2) + (b % 2)) % 2) + 2 * BitXor(a \div 2, b \div 2)

RECURSIVE hash_from(_, _, _)
hash_from(hash, key, i) ==
    IF i > Len(key) THEN hash
    ELSE hash_from((BitXor(hash, key[i]) * (FnvPrimeLow % HashMod)) % HashMod, key, i + 1)

\* the FNV-1a hash of every key in use (computed once)
KeyHashes == [k \in Keys |-> hash_from(FnvOffsetLow % HashMod, KeyBytes[k], 1)]

hash_key(key) == KeyHashes[key]

(***************************************************************************)
(* Memory.  A Vec<Node> buffer is named by its address (base); the record  *)
(* of the node at index i lives at <<base, i>>.  A key's cached pointer is *)
(* <<"inline", base, i>> (the buf field of the record at <<base, i>>),     *)
(* <<"heap", id>> (a separately allocated byte buffer), <<"null">> or      *)
(* <<"uninit">>.  A world W is the set of maps alive together with the     *)
(* heap of key buffers: [maps |-> [id -> map], heap |-> [id -> bytes]].    *)
(***************************************************************************)
Min(S) == CHOOSE x \in S : \A y \in S : x <= y

LiveBases(W) == {W.maps[id].base : id \in DOMAIN W.maps}

\* the allocator hands out an address that is not in use
FreshAddr(W) == Min({a \in 1 .. Cardinality(LiveBases(W)) + 1 : a \notin LiveBases(W)})

FreshHeap(heap) == Min({h \in 1 .. Cardinality(DOMAIN heap) + 1 : h \notin DOMAIN heap})

HeapAlloc(heap, bytes) ==
    [h \in DOMAIN heap \cup {FreshHeap(heap)} |->
        IF h \in DOMAIN heap THEN heap[h] ELSE bytes]

HeapFree(heap, id) == [h \in DOMAIN heap \ {id} |-> heap[h]]

SetMap(W, id, M) == [W EXCEPT !.maps = [i \in DOMAIN W.maps \cup {id} |-> IF i = id THEN M ELSE W.maps[i]]]

DropMapId(W, id) == [W EXCEPT !.maps = [i \in DOMAIN W.maps \ {id} |-> W.maps[i]]]

(***************************************************************************)
(* Key                                                                     *)
(***************************************************************************)
Key_new(hash, len) == [buf |-> Garbage, len |-> len, ptr |-> <<"uninit">>, hash |-> hash]

\* Key::as_bytes: the len bytes behind the cached pointer
as_bytes(W, k) ==
    IF k.ptr[1] = "heap"
    THEN IF k.ptr[2] \in DOMAIN W.heap THEN W.heap[k.ptr[2]] ELSE Garbage
    ELSE IF k.ptr[1] = "inline"
    THEN LET owners == {id \in DOMAIN W.maps :
                           /\ W.maps[id].base = k.ptr[2]
                           /\ W.maps[id].cap > 0
                           /\ k.ptr[3] < Len(W.maps[id].store)}
         IN  IF owners = {} THEN Garbage
             ELSE W.maps[CHOOSE id \in owners : TRUE].store[k.ptr[3] + 1].key.buf
    ELSE Garbage

\* Key::attach, for the key of the record at <<base, index>>
attach_inline(k, key, base, index) ==
    [k EXCEPT !.buf = key, !.ptr = <<"inline", base, index>>]

attach_heap(k, heap) == [k EXCEPT !.ptr = <<"heap", FreshHeap(heap)>>]

attach(W, id, index, key) ==
    LET M == W.maps[id]
        k == M.store[index + 1].key
    IN  IF k.len <= KEY_BUF_LEN
        THEN SetMap(W, id, [M EXCEPT !.store[index + 1].key =
                                attach_inline(k, key, M.base, index)])
        ELSE [SetMap(W, id, [M EXCEPT !.store[index + 1].key = attach_heap(k, W.heap)])
                EXCEPT !.heap = HeapAlloc(W.heap, key)]

\* fix_ptr taking a key of exactly KEY_BUF_LEN bytes for a heap key
fix_ptr_below_limit(k, base, index) ==
    IF k.len < KEY_BUF_LEN THEN [k EXCEPT !.ptr = <<"inline", base, index>>] ELSE k

\* Key::fix_ptr, for the key of the record at <<base, index>>
fix_ptr(k, base, index) ==
    IF k.len <= KEY_BUF_LEN THEN [k EXCEPT !.ptr = <<"inline", base, index>>] ELSE k

\* a Key without a Drop of its own: the heap buffer stays behind
Key_drop_leaks(heap, k) == heap

\* Drop for Key
Key_drop(heap, k) ==
    IF k.len > KEY_BUF_LEN /\ k.ptr[1] = "heap" /\ k.ptr[2] \in DOMAIN heap
    THEN HeapFree(heap, k.ptr[2])
    ELSE heap

RECURSIVE drop_nodes(_, _, _)
drop_nodes(heap, store, i) ==
    IF i > Len(store) THEN heap
    ELSE drop_nodes(Key_drop(heap, store[i].key), store, i + 1)

\* the buffer of a Key built with buf: [0; KEY_BUF_LEN]
Zeroed == "zeroed"

\* Clone for Key with the inline buffer left zeroed
Key_clone_buf_zeroed(W, k) ==
    IF k.len > KEY_BUF_LEN
    THEN [key |-> [buf |-> Zeroed, len |-> k.len,
                   ptr |-> <<"heap", FreshHeap(W.heap)>>, hash |-> k.hash],
          heap |-> HeapAlloc(W.heap, as_bytes(W, k))]
    ELSE [key |-> [buf |-> Zeroed, len |-> k.len, ptr |-> <<"null">>, hash |-> k.hash],
          heap |-> W.heap]

\* the Clone a derive would give Key: every field copied, the pointer too
Key_clone_derived(W, k) == [key |-> k, heap |-> W.heap]

\* Clone for Key: [key |-> the clone, heap |-> the heap after it]
Key_clone(W, k) ==
    IF k.len > KEY_BUF_LEN
    THEN [key |-> [buf |-> Zeroed, len |-> k.len,
                   ptr |-> <<"heap", FreshHeap(W.heap)>>, hash |-> k.hash],
          heap |-> HeapAlloc(W.heap, as_bytes(W, k))]
    ELSE [key |-> [buf |-> k.buf, len |-> k.len, ptr |-> <<"null">>, hash |-> k.hash],
          heap |-> W.heap]

(***************************************************************************)
(* Node and StrMap                                                         *)
(***************************************************************************)
Node_new(value, hash, len) ==
    [key |-> Key_new(hash, len), left |-> 0, right |-> 0, value |-> value]

StrMap_new == [store |-> <<>>, cap |-> 0, base |-> 0]

with_capacity(W, capacity) ==
    [store |-> <<>>, cap |-> capacity,
     base |-> IF capacity = 0 THEN 0 ELSE FreshAddr(W)]

\* the capacity a full Vec grows to: amortised doubling
grow(cap) == IF cap = 0 THEN 1 ELSE 2 * cap

\* Vec::push: a full buffer is reallocated (and moves) before the write
push(W, id, node) ==
    LET M == W.maps[id]
    IN  IF Len(M.store) < M.cap
        THEN SetMap(W, id, [M EXCEPT !.store = Append(M.store, node)])
        ELSE SetMap(W, id, [store |-> Append(M.store, node),
                            cap |-> grow(M.cap),
                            base |-> FreshAddr(W)])

RECURSIVE fix_ptrs(_, _, _)
fix_ptrs(M, i, index) ==
    IF i >= index THEN M
    ELSE fix_ptrs([M EXCEPT !.store[i + 1].key = fix_ptr(M.store[i + 1].key, M.base, i)],
                  i + 1, index)

\* StrMap::add_node; yields the world (the index of the node is the old length)
add_node(W, id, key, value, hash) ==
    LET M == W.maps[id]
        index == Len(M.store)
    IN  IF index < M.cap
        THEN attach(SetMap(W, id, [M EXCEPT !.store =
                        Append(M.store, Node_new(value, hash, key_len(key)))]),
                    id, index, key)
        ELSE LET W1 == attach(push(W, id, Node_new(value, hash, key_len(key))),
                              id, index, key)
             IN  SetMap(W1, id, fix_ptrs(W1.maps[id], 0, index))

\* the loop of StrMap::insert: [found, index], index being the node that
\* holds the key (found), or the parent a new node is linked from
RECURSIVE insert_walk(_, _, _, _, _)
\* the walk of insert taking equal hashes for equal keys
insert_walk_hash_only(W, id, parent, key, hash) ==
    LET node == W.maps[id].store[parent + 1]
    IN  IF hash = node.key.hash
        THEN [found |-> TRUE, index |-> parent, side |-> "none"]
        ELSE IF hash < node.key.hash
        THEN IF node.left # 0
             THEN insert_walk(W, id, node.left, key, hash)
             ELSE [found |-> FALSE, index |-> parent, side |-> "left"]
        ELSE IF node.right # 0
             THEN insert_walk(W, id, node.right, key, hash)
             ELSE [found |-> FALSE, index |-> parent, side |-> "right"]

\* the walk of insert sending a key of equal hash and other bytes left
insert_walk_ties_left(W, id, parent, key, hash) ==
    LET node == W.maps[id].store[parent + 1]
    IN  IF hash = node.key.hash /\ key = as_bytes(W, node.key)
        THEN [found |-> TRUE, index |-> parent, side |-> "none"]
        ELSE IF hash <= node.key.hash
        THEN IF node.left # 0
             THEN insert_walk(W, id, node.left, key, hash)
             ELSE [found |-> FALSE, index |-> parent, side |-> "left"]
        ELSE IF node.right # 0
             THEN insert_walk(W, id, node.right, key, hash)
             ELSE [found |-> FALSE, index |-> parent, side |-> "right"]

insert_walk(W, id, parent, key, hash) ==
    LET node == W.maps[id].store[parent + 1]
    IN  IF hash = node.key.hash /\ key = as_bytes(W, node.key)
        THEN [found |-> TRUE, index |-> parent, side |-> "none"]
        ELSE IF hash < node.key.hash
        THEN IF node.left # 0
             THEN insert_walk(W, id, node.left, key, hash)
             ELSE [found |-> FALSE, index |-> parent, side |-> "left"]
        ELSE IF node.right # 0
             THEN insert_walk(W, id, node.right, key, hash)
             ELSE [found |-> FALSE, index |-> parent, side |-> "right"]

\* insert linking every new node from its parent's right link
insert_links_right(W, id, key, value) ==
    LET hash == hash_key(key)
        M == W.maps[id]
    IN  IF Len(M.store) = 0
        THEN [W |-> attach(push(W, id, Node_new(value, hash, key_len(key))), id, 0, key),
              index |-> 0]
        ELSE LET w == insert_walk(W, id, 0, key, hash)
                 added == Len(M.store)
             IN  IF w.found
                 THEN [W |-> SetMap(W, id, [M EXCEPT !.store[w.index + 1].value = value]),
                       index |-> w.index]
                 ELSE LET W1 == add_node(W, id, key, value, hash)
                          M1 == W1.maps[id]
                      IN  [W |-> SetMap(W1, id, [M1 EXCEPT !.store[w.index + 1].right = added]),
                           index |-> added]

\* StrMap::insert: [W |-> the world after it, index |-> the slot it returns]
insert(W, id, key, value) ==
    LET hash == hash_key(key)
        M == W.maps[id]
    IN  IF Len(M.store) = 0
        THEN [W |-> attach(push(W, id, Node_new(value, hash, key_len(key))), id, 0, key),
              index |-> 0]
        ELSE LET w == insert_walk(W, id, 0, key, hash)
                 added == Len(M.store)
             IN  IF w.found
                 THEN [W |-> SetMap(W, id, [M EXCEPT !.store[w.index + 1].value = value]),
                       index |-> w.index]
                 ELSE LET W1 == add_node(W, id, key, value, hash)
                          M1 == W1.maps[id]
                      IN  IF w.side = "left"
                          THEN [W |-> SetMap(W1, id, [M1 EXCEPT !.store[w.index + 1].left = added]),
                                index |-> added]
                          ELSE [W |-> SetMap(W1, id, [M1 EXCEPT !.store[w.index + 1].right = added]),
                                index |-> added]

\* the loop of StrMap::get: Some(index of the node holding key) or None
RECURSIVE get_walk(_, _, _, _, _)
\* the walk of get taking equal hashes for equal keys
get_walk_hash_only(W, id, index, key, hash) ==
    LET node == W.maps[id].store[index + 1]
    IN  IF hash = node.key.hash
        THEN Some(index)
        ELSE IF hash < node.key.hash
        THEN IF node.left = 0 THEN None
             ELSE get_walk(W, id, node.left, key, hash)
        ELSE IF node.right = 0 THEN None
             ELSE get_walk(W, id, node.right, key, hash)

get_walk(W, id, index, key, hash) ==
    LET node == W.maps[id].store[index + 1]
    IN  IF hash = node.key.hash /\ key = as_bytes(W, node.key)
        THEN Some(index)
        ELSE IF hash < node.key.hash
        THEN IF node.left = 0 THEN None
             ELSE get_walk(W, id, node.left, key, hash)
        ELSE IF node.right = 0 THEN None
             ELSE get_walk(W, id, node.right, key, hash)

\* StrMap::get: Some(value) or None
get(W, id, key) ==
    IF Len(W.maps[id].store) = 0 THEN None
    ELSE LET found == get_walk(W, id, 0, key, hash_key(key))
         IN  IF found = None THEN None
             ELSE Some(W.maps[id].store[found[1] + 1].value)

\* the loop of StrMap::get_mut
RECURSIVE get_mut_walk(_, _, _, _, _)
\* the walk of get_mut sending an equal hash to the left, unlike insert
get_mut_walk_ties_left(W, id, index, key, hash) ==
    LET node == W.maps[id].store[index + 1]
    IN  IF hash = node.key.hash /\ key = as_bytes(W, node.key)
        THEN Some(index)
        ELSE IF hash <= node.key.hash
        THEN IF node.left = 0 THEN None
             ELSE get_mut_walk(W, id, node.left, key, hash)
        ELSE IF node.right = 0 THEN None
             ELSE get_mut_walk(W, id, node.right, key, hash)

get_mut_walk(W, id, index, key, hash) ==
    LET node == W.maps[id].store[index + 1]
    IN  IF hash = node.key.hash /\ key = as_bytes(W, node.key)
        THEN Some(index)
        ELSE IF hash < node.key.hash
        THEN IF node.left = 0 THEN None
             ELSE get_mut_walk(W, id, node.left, key, hash)
        ELSE IF node.right = 0 THEN None
             ELSE get_mut_walk(W, id, node.right, key, hash)

\* StrMap::get_mut: Some(index of the slot the reference points to) or None
get_mut(W, id, key) ==
    IF Len(W.maps[id].store) = 0 THEN None
    ELSE get_mut_walk(W, id, 0, key, hash_key(key))

\* the search loop of StrMap::remove
RECURSIVE remove_walk(_, _, _, _, _)
\* the search of remove taking equal hashes for equal keys
remove_walk_hash_only(W, id, index, key, hash) ==
    LET node == W.maps[id].store[index + 1]
    IN  IF hash = node.key.hash
        THEN Some(index)
        ELSE IF hash < node.key.hash
        THEN IF node.left = 0 THEN None
             ELSE remove_walk(W, id, node.left, key, hash)
        ELSE IF node.right = 0 THEN None
             ELSE remove_walk(W, id, node.right, key, hash)

remove_walk(W, id, index, key, hash) ==
    LET node == W.maps[id].store[index + 1]
    IN  IF hash = node.key.hash /\ key = as_bytes(W, node.key)
        THEN Some(index)
        ELSE IF hash < node.key.hash
        THEN IF node.left = 0 THEN None
             ELSE remove_walk(W, id, node.left, key, hash)
        ELSE IF node.right = 0 THEN None
             ELSE remove_walk(W, id, node.right, key, hash)

\* the rebuild loop of remove going through the nodes from the last to the
\* first
RECURSIVE remove_rebuild_backwards(_, _, _, _)
remove_rebuild_backwards(W, id, index, i) ==
    LET M == W.maps[id]
        at == Len(M.store) - 1 - i
    IN  IF i >= Len(M.store) THEN W
        ELSE LET W1 == SetMap(W, id, [M EXCEPT !.store[at + 1].value = Null])
             IN  IF at = index
                 THEN remove_rebuild_backwards(W1, id, index, i + 1)
                 ELSE remove_rebuild_backwards(
                          insert(W1, "new_object", as_bytes(W1, M.store[at + 1].key),
                                 M.store[at + 1].value).W,
                          id, index, i + 1)

\* the rebuild loop of StrMap::remove: every node but the one at index is
\* inserted into new_object, its value replaced by V::default()
RECURSIVE remove_rebuild(_, _, _, _)
\* the rebuild re-inserting the value left behind by mem::replace
remove_rebuild_replaced_value(W, id, index, i) ==
    LET M == W.maps[id]
    IN  IF i >= Len(M.store) THEN W
        ELSE LET W1 == SetMap(W, id, [M EXCEPT !.store[i + 1].value = Null])
             IN  IF i = index
                 THEN remove_rebuild(W1, id, index, i + 1)
                 ELSE remove_rebuild(
                          insert(W1, "new_object", as_bytes(W1, M.store[i + 1].key),
                                 W1.maps[id].store[i + 1].value).W,
                          id, index, i + 1)

remove_rebuild(W, id, index, i) ==
    LET M == W.maps[id]
    IN  IF i >= Len(M.store) THEN W
        ELSE LET W1 == SetMap(W, id, [M EXCEPT !.store[i + 1].value = Null])
             IN  IF i = index
                 THEN remove_rebuild(W1, id, index, i + 1)
                 ELSE remove_rebuild(
                          insert(W1, "new_object", as_bytes(W1, M.store[i + 1].key),
                                 M.store[i + 1].value).W,
                          id, index, i + 1)

\* dropping a StrMap: every Key releases its heap buffer, the Vec its own
drop_map(W, id) ==
    [DropMapId(W, id) EXCEPT !.heap = drop_nodes(W.heap, W.maps[id].store, 1)]

\* StrMap::remove: [W |-> the world after it, removed |-> Option<V>]
remove(W, id, key) ==
    LET M == W.maps[id]
    IN  IF Len(M.store) = 0 THEN [W |-> W, removed |-> None]
        ELSE LET found == remove_walk(W, id, 0, key, hash_key(key))
             IN  IF found = None THEN [W |-> W, removed |-> None]
                 ELSE LET W0 == SetMap(W, "new_object", with_capacity(W, Len(M.store) - 1))
                          W1 == remove_rebuild(W0, id, found[1], 0)
                          \* mem::swap(self, &mut new_object), then new_object is dropped
                          W2 == SetMap(SetMap(W1, id, W1.maps["new_object"]),
                                       "new_object", W1.maps[id])
                      IN  [W |-> drop_map(W2, "new_object"),
                           removed |-> Some(M.store[found[1] + 1].value)]

\* StrMap::len
len(W, id) == Len(W.maps[id].store)

is_empty(W, id) == Len(W.maps[id].store) = 0

\* a clear that gives the buffer back with the nodes
clear_releases_capacity(W, id) ==
    [SetMap(W, id, StrMap_new)
        EXCEPT !.heap = drop_nodes(W.heap, W.maps[id].store, 1)]

\* StrMap::clear: Vec::clear drops the nodes and keeps the buffer
clear(W, id) ==
    [SetMap(W, id, [W.maps[id] EXCEPT !.store = <<>>])
        EXCEPT !.heap = drop_nodes(W.heap, W.maps[id].store, 1)]

\* self.store.clone(): every node cloned into a Vec of its own
RECURSIVE clone_nodes(_, _, _, _)
clone_nodes(W, id, new, i) ==
    IF i > Len(W.maps[id].store) THEN W
    ELSE LET node == W.maps[id].store[i]
             c == Key_clone(W, node.key)
         IN  clone_nodes(
                 [SetMap(W, new, [W.maps[new] EXCEPT !.store =
                                     Append(@, [node EXCEPT !.key = c.key])])
                     EXCEPT !.heap = c.heap],
                 id, new, i + 1)

\* Clone for StrMap: the world with the clone of id as the map new
clone(W, id, new) ==
    LET W1 == clone_nodes(SetMap(W, new, with_capacity(W, Len(W.maps[id].store))),
                          id, new, 1)
    IN  SetMap(W1, new, fix_ptrs(W1.maps[new], 0, Len(W1.maps[new].store)))

\* StrMap::iter: the (key, value) pairs in storage order
iter(W, id) ==
    [i \in 1 .. Len(W.maps[id].store) |->
        <<as_bytes(W, W.maps[id].store[i].key), W.maps[id].store[i].value>>]

\* PartialEq for StrMap
RECURSIVE eq_loop(_, _, _, _)
eq_loop(W, self, other, i) ==
    IF i > Len(iter(W, self)) THEN TRUE
    ELSE LET key == iter(W, self)[i][1]
             value == iter(W, self)[i][2]
             other_val == get(W, other, key)
         IN  IF other_val = None THEN FALSE
             ELSE IF other_val[1] # value THEN FALSE
             ELSE eq_loop(W, self, other, i + 1)

\* eq without the comparison of the lengths
eq_no_len(W, self, other) == eq_loop(W, self, other, 1)

eq(W, self, other) ==
    IF len(W, self) # len(W, other) THEN FALSE
    ELSE eq_loop(W, self, other, 1)

\* Index<&str> for Object
index(W, id, key) ==
    LET found == get(W, id, key)
    IN  IF found # None THEN found[1] ELSE Null

\* index_mut inserting Null whether or not the key is present
index_mut_always_inserts(W, id, key) == insert(W, id, key, Null)

\* IndexMut<&str> for Object: [W |-> the world after it, index |-> the slot]
index_mut(W, id, key) ==
    LET found == get_mut(W, id, key)
    IN  IF found # None THEN [W |-> W, index |-> found[1]]
        ELSE insert(W, id, key, Null)

(***************************************************************************)
(* The Generator: the sink the text is written to.                         *)
(*   code    the bytes written so far, one piece for each write            *)
(*   dent    the indentation depth                                         *)
(*   pretty  TRUE for the pretty mode, FALSE for the compact mode          *)
(*   left    the writes the sink accepts before it fails (-1: never fails) *)
(*   errs    the writes that were attempted and failed                     *)
(* A write hands back [g |-> the generator after it, ok |-> its result].   *)
(***************************************************************************)
\* the spaces of one indentation level
SpacesPerIndent == 2

Generator_new(pretty, left) ==
    [code |-> <<>>, dent |-> 0, pretty |-> pretty, left |-> left, errs |-> 0]

\* DumpGenerator::new: the compact mode over an in-memory buffer
DumpGenerator_new == Generator_new(FALSE, -1)

Ok(g) == [g |-> g, ok |-> TRUE]

Err(g) == [g |-> g, ok |-> FALSE]

\* Generator::write: the bytes appended, or the sink's failure
write(g, bytes) ==
    IF g.left = 0 THEN Err([g EXCEPT !.errs = @ + 1])
    ELSE Ok([g EXCEPT !.code = @ \o bytes, !.left = IF @ > 0 THEN @ - 1 ELSE @])

\* Generator::write_char: one byte appended
write_char(g, c) == write(g, <<c>>)

\* Generator::write_str: the string as a JSON string literal
write_str(g, s) == write(g, <<"\"" \o s \o "\"">>)

\* Generator::write_number: the number's own text
write_number(g, n) == write(g, <<ToString(n)>>)

\* Generator::write_min: the full form in the pretty mode, the minimal one in
\* the compact mode
write_min(g, slice, min) == IF g.pretty THEN write(g, <<slice>>) ELSE write(g, <<min>>)

\* Generator::new_line: in the pretty mode a newline and the spaces of the
\* current depth, in the compact mode nothing
new_line(g) ==
    IF g.pretty
    THEN write(g, <<"\n">> \o [i \in 1 .. g.dent * SpacesPerIndent |-> " "])
    ELSE Ok(g)

\* Generator::indent / Generator::dedent: the depth of the pretty mode
indent(g) == IF g.pretty THEN [g EXCEPT !.dent = @ + 1] ELSE g

dedent(g) == IF g.pretty THEN [g EXCEPT !.dent = @ - 1] ELSE g

\* DumpGenerator::consume: the buffer handed over as the finished String
consume(g) == g.code

(***************************************************************************)
(* JsonValue and its serialization (src/src/codegen/to_json.rs).  A value  *)
(* is [t |-> its variant, v |-> its content]: the elements of an Array, the *)
(* (key, value) pairs of an Object in the order its iter() yields them.     *)
(***************************************************************************)
\* short::MAX_LEN: the longest string a Short holds
MAX_LEN == 30

\* Short::from_slice and Short::as_str: the bytes kept with their length
Short_from_slice(val) == [len |-> Len(val), bytes |-> val]

Short_as_str(short) == short.bytes

JsonNull == [t |-> "Null", v |-> <<>>]

JsonNumber(n) == [t |-> "Number", v |-> <<n>>]

JsonString(str) == [t |-> "String", v |-> <<str>>]

JsonShort(short) == [t |-> "Short", v |-> <<short>>]

JsonBoolean(b) == [t |-> "Boolean", v |-> <<b>>]

JsonArray(items) == [t |-> "Array", v |-> items]

JsonObject(members) == [t |-> "Object", v |-> members]

RECURSIVE generate(_, _)
RECURSIVE generate_array_rest(_, _, _)
RECURSIVE generate_object_rest(_, _, _)

\* the loop of generate_array with the result of the ',' write dropped
generate_array_rest_unchecked(items, i, g) ==
    IF i > Len(items) THEN Ok(g)
    ELSE LET r1 == write_char(g, ",")
             r2 == new_line(r1.g)
         IN  IF ~r2.ok THEN r2
             ELSE LET r3 == generate(items[i], r2.g)
                  IN  IF ~r3.ok THEN r3
                      ELSE generate_array_rest(items, i + 1, r3.g)

\* generate_array: the loop over the items after the first
generate_array_rest(items, i, g) ==
    IF i > Len(items) THEN Ok(g)
    ELSE LET r1 == write_char(g, ",")
         IN  IF ~r1.ok THEN r1
             ELSE LET r2 == new_line(r1.g)
                  IN  IF ~r2.ok THEN r2
                      ELSE LET r3 == generate(items[i], r2.g)
                           IN  IF ~r3.ok THEN r3
                               ELSE generate_array_rest(items, i + 1, r3.g)

\* generate_array: the arm of an iterator that yields nothing
generate_array_none(g) == write_char(g, "]")

\* generate_array with the indent of a non-empty array left out
generate_array_no_indent(items, g) ==
    LET r1 == write_char(g, "[")
    IN  IF ~r1.ok THEN r1
        ELSE IF items = <<>> THEN generate_array_none(r1.g)
        ELSE LET r2 == new_line(r1.g)
             IN  IF ~r2.ok THEN r2
                 ELSE LET r3 == generate(items[1], r2.g)
                      IN  IF ~r3.ok THEN r3
                          ELSE LET r4 == generate_array_rest(items, 2, r3.g)
                               IN  IF ~r4.ok THEN r4
                                   ELSE LET r5 == new_line(r4.g)
                                        IN  IF ~r5.ok THEN r5
                                            ELSE write_char(r5.g, "]")

generate_array(items, g) ==
    LET r1 == write_char(g, "[")
    IN  IF ~r1.ok THEN r1
        ELSE IF items = <<>> THEN generate_array_none(r1.g)
        ELSE LET r2 == new_line(indent(r1.g))
             IN  IF ~r2.ok THEN r2
                 ELSE LET r3 == generate(items[1], r2.g)
                      IN  IF ~r3.ok THEN r3
                          ELSE LET r4 == generate_array_rest(items, 2, r3.g)
                               IN  IF ~r4.ok THEN r4
                                   ELSE LET r5 == new_line(dedent(r4.g))
                                        IN  IF ~r5.ok THEN r5
                                            ELSE write_char(r5.g, "]")

\* generate_object with ": " for the separator in both modes
generate_member_full_separator(member, g) ==
    LET r1 == write_str(g, member[1])
    IN  IF ~r1.ok THEN r1
        ELSE LET r2 == write(r1.g, <<": ">>)
             IN  IF ~r2.ok THEN r2
                 ELSE generate(member[2], r2.g)

\* generate_object: key, separator and value of one member
generate_member(member, g) ==
    LET r1 == write_str(g, member[1])
    IN  IF ~r1.ok THEN r1
        ELSE LET r2 == write_min(r1.g, ": ", ":")
             IN  IF ~r2.ok THEN r2
                 ELSE generate(member[2], r2.g)

\* generate_object with the members after the first in reverse order
RECURSIVE generate_object_rest_reversed(_, _, _)
generate_object_rest_reversed(members, i, g) ==
    IF i > Len(members) THEN Ok(g)
    ELSE LET r1 == write_char(g, ",")
         IN  IF ~r1.ok THEN r1
             ELSE LET r2 == new_line(r1.g)
                  IN  IF ~r2.ok THEN r2
                      ELSE LET r3 == generate_member(members[Len(members) + 2 - i], r2.g)
                           IN  IF ~r3.ok THEN r3
                               ELSE generate_object_rest_reversed(members, i + 1, r3.g)

\* generate_object: the loop over the members after the first
generate_object_rest(members, i, g) ==
    IF i > Len(members) THEN Ok(g)
    ELSE LET r1 == write_char(g, ",")
         IN  IF ~r1.ok THEN r1
             ELSE LET r2 == new_line(r1.g)
                  IN  IF ~r2.ok THEN r2
                      ELSE LET r3 == generate_member(members[i], r2.g)
                           IN  IF ~r3.ok THEN r3
                               ELSE generate_object_rest(members, i + 1, r3.g)

\* generate_object with a line break inside the empty object
generate_object_none_formatted(g) ==
    LET r1 == new_line(g)
    IN  IF ~r1.ok THEN r1 ELSE write_char(r1.g, "}")

\* generate_object: the arm of an iterator that yields nothing
generate_object_none(g) == write_char(g, "}")

\* generate_object with the dedent before the closing bracket left out
generate_object_no_dedent(members, g) ==
    LET r1 == write_char(g, "{")
    IN  IF ~r1.ok THEN r1
        ELSE IF members = <<>> THEN generate_object_none(r1.g)
        ELSE LET r2 == new_line(indent(r1.g))
             IN  IF ~r2.ok THEN r2
                 ELSE LET r3 == generate_member(members[1], r2.g)
                      IN  IF ~r3.ok THEN r3
                          ELSE LET r4 == generate_object_rest(members, 2, r3.g)
                               IN  IF ~r4.ok THEN r4
                                   ELSE LET r5 == new_line(r4.g)
                                        IN  IF ~r5.ok THEN r5
                                            ELSE write_char(r5.g, "}")

generate_object(members, g) ==
    LET r1 == write_char(g, "{")
    IN  IF ~r1.ok THEN r1
        ELSE IF members = <<>> THEN generate_object_none(r1.g)
        ELSE LET r2 == new_line(indent(r1.g))
             IN  IF ~r2.ok THEN r2
                 ELSE LET r3 == generate_member(members[1], r2.g)
                      IN  IF ~r3.ok THEN r3
                          ELSE LET r4 == generate_object_rest(members, 2, r3.g)
                               IN  IF ~r4.ok THEN r4
                                   ELSE LET r5 == new_line(dedent(r4.g))
                                        IN  IF ~r5.ok THEN r5
                                            ELSE write_char(r5.g, "}")

\* ToJson for JsonValue
generate(val, g) ==
    CASE val.t = "Null" -> write(g, <<"null">>)
      [] val.t = "Short" -> write_str(g, Short_as_str(val.v[1]))
      [] val.t = "String" -> write_str(g, val.v[1])
      [] val.t = "Boolean" -> write(g, <<IF val.v[1] THEN "true" ELSE "false">>)
      [] val.t = "Number" -> write_number(g, val.v[1])
      [] val.t = "Array" -> generate_array(val.v, g)
      [] val.t = "Object" -> generate_object(val.v, g)

(***************************************************************************)
(* Conversions into JsonValue and its comparisons with other types         *)
(* (src/src/value/implements.rs).                                          *)
(***************************************************************************)
\* From<&str> for JsonValue
From_str(val) ==
    IF Len(val) <= MAX_LEN THEN JsonShort(Short_from_slice(val)) ELSE JsonString(val)

\* From<String> for JsonValue: implement!(String, String)
From_String(val) == JsonString(val)

\* From<HashMap<String, JsonValue>> for JsonValue: the Object id filled by
\* the inserts of the pairs, in the order the map hands them out
RECURSIVE insert_pairs(_, _, _, _)
insert_pairs(W, id, pairs, i) ==
    IF i > Len(pairs) THEN W
    ELSE insert_pairs(insert(W, id, pairs[i][1], pairs[i][2]).W, id, pairs, i + 1)

Object_from(W, id, pairs) ==
    insert_pairs(SetMap(W, id, with_capacity(W, Len(pairs))), id, pairs, 1)

\* the comparison of a JsonValue with a str that knows the String variant
\* only
eq_str_string_only(self, other) ==
    CASE self.t = "String" -> self.v[1] = other
      [] OTHER -> FALSE

\* PartialEq<&str> and PartialEq<str> for JsonValue
eq_str(self, other) ==
    CASE self.t = "Short" -> Short_as_str(self.v[1]) = other
      [] self.t = "String" -> self.v[1] = other
      [] OTHER -> FALSE

\* PartialEq<JsonValue> for &str and for str
str_eq(self, other) ==
    CASE other.t = "Short" -> Short_as_str(other.v[1]) = self
      [] other.t = "String" -> other.v[1] = self
      [] OTHER -> FALSE

\* Object == Object: the two Objects side by side, compared by StrMap's eq
Object_eq(value, other) ==
    LET W0 == [maps |-> [self |-> StrMap_new, other |-> StrMap_new], heap |-> <<>>]
        W == Object_from(Object_from(W0, "self", value), "other", other)
    IN  eq(W, "self", "other")

\* implement_eq!($to, $from): value == other under the variant $to, false
\* under every other
implement_eq(to, self, other) ==
    IF self.t = to
    THEN IF to = "Object" THEN Object_eq(self.v, other) ELSE self.v[1] = other
    ELSE FALSE

(***************************************************************************)
(* The fluent writer (src/src/writer/mod.rs).                              *)
(*                                                                         *)
(* A builder value is the chain of its wrapper types, outermost last:      *)
(* EmptyObjectWriter<EmptyArrayWriter<JsonWriter>> is                      *)
(* <<"JsonWriter", "EmptyArrayWriter", "EmptyObjectWriter">>.  A builder   *)
(* b is [w |-> the chain, gen |-> the generator, text |-> the String       *)
(* handed back by consume(), None until then].                             *)
(***************************************************************************)
WriterKeys == {"a", "b"}

\* the scalars handed to value(): numbers
WriterVals == {1, 2}

Top(w) == w[Len(w)]

Front(w) == SubSeq(w, 1, Len(w) - 1)

\* the types that implement ValueWriter
ValueWriters == {"JsonWriter", "ObjectValueWriter", "EmptyArrayWriter", "ArrayWriter"}

\* self.gen().write_char(c); the result of the write is dropped
gen_write_char(b, c) == [b EXCEPT !.gen = write_char(@, c).g]

\* self.gen().write_str(s); the result of the write is dropped
gen_write_str(b, s) == [b EXCEPT !.gen = write_str(@, s).g]

\* val.generate(self.gen()); for a number; the result is dropped
gen_generate(b, n) == [b EXCEPT !.gen = write_number(@, n).g]

\* self.gen.consume(): the buffer moves out of the generator
gen_consume(b) == [w |-> <<>>, gen |-> [b.gen EXCEPT !.code = <<>>], text |-> Some(consume(b.gen))]

\* JsonWriter::new
JsonWriter_new == [w |-> <<"JsonWriter">>, gen |-> DumpGenerator_new, text |-> None]

\* ValueWriter::pop of each implementor
JsonWriter_pop(b) == gen_consume(b)

ObjectValueWriter_pop(b) == [b EXCEPT !.w = Front(b.w)]

\* EmptyArrayWriter::pop handing back the empty-array role
EmptyArrayWriter_pop_stays_empty(b) == b

EmptyArrayWriter_pop(b) == [b EXCEPT !.w = Append(Front(b.w), "ArrayWriter")]

ArrayWriter_pop(b) == b

pop(b) ==
    CASE Top(b.w) = "JsonWriter" -> JsonWriter_pop(b)
      [] Top(b.w) = "ObjectValueWriter" -> ObjectValueWriter_pop(b)
      [] Top(b.w) = "EmptyArrayWriter" -> EmptyArrayWriter_pop(b)
      [] Top(b.w) = "ArrayWriter" -> ArrayWriter_pop(b)

\* ArrayWriter::before_value with the comma left out
ArrayWriter_before_value_no_comma(b) == b

\* ValueWriter::before_value: the default does nothing, ArrayWriter's writes ','
ArrayWriter_before_value(b) == gen_write_char(b, ",")

before_value(b) ==
    IF Top(b.w) = "ArrayWriter" THEN ArrayWriter_before_value(b) ELSE b

\* ValueWriter::object without the call of before_value
object_no_before_value(b) ==
    [gen_write_char(b, "{") EXCEPT !.w = Append(b.w, "EmptyObjectWriter")]

\* ValueWriter::object
object(b) ==
    [gen_write_char(before_value(b), "{") EXCEPT !.w = Append(b.w, "EmptyObjectWriter")]

\* ValueWriter::array
array(b) ==
    [gen_write_char(before_value(b), "[") EXCEPT !.w = Append(b.w, "EmptyArrayWriter")]

\* ValueWriter::value, val a number
value(b, val) == pop(gen_generate(before_value(b), val))

\* the root of a container writer: the builder it wraps
root(b) == [b EXCEPT !.w = Front(b.w)]

\* EmptyObjectWriter::close
EmptyObjectWriter_close(b) == pop(root(gen_write_char(b, "}")))

\* EmptyObjectWriter::key
EmptyObjectWriter_key(b, key) ==
    [gen_write_char(gen_write_str(b, key), ":")
        EXCEPT !.w = Front(b.w) \o <<"ObjectWriter", "ObjectValueWriter">>]

\* ObjectWriter::close
ObjectWriter_close(b) == pop(root(gen_write_char(b, "}")))

\* ObjectWriter::key with the comma left out
ObjectWriter_key_no_comma(b, name) ==
    [gen_write_char(gen_write_str(b, name), ":")
        EXCEPT !.w = Append(b.w, "ObjectValueWriter")]

\* ObjectWriter::key
ObjectWriter_key(b, name) ==
    [gen_write_char(gen_write_str(gen_write_char(b, ","), name), ":")
        EXCEPT !.w = Append(b.w, "ObjectValueWriter")]

\* EmptyArrayWriter::close
EmptyArrayWriter_close(b) == pop(root(gen_write_char(b, "]")))

\* ArrayWriter::close
ArrayWriter_close(b) == pop(root(gen_write_char(b, "]")))

(***************************************************************************)
(* The state machine of the maps.  Two maps, "self" and "other", live side *)
(* by side; every action is one call of the public interface.              *)
(*   ref[m][k]  the reference map: Some(v) when k is a member of m         *)
(*   order[m]   the members of m, in the order of their first insertion    *)
(*   last       the last call: its name, map, arguments and result         *)
(***************************************************************************)
VARIABLES maps, heap, ref, order, last, builder, calls, dump, cmp

mapVars == <<maps, heap, ref, order, last>>

writerVars == <<builder, calls>>

vars == <<maps, heap, ref, order, last, builder, calls, dump, cmp>>

MapIds == {"self", "other"}

World == [maps |-> maps, heap |-> heap]

\* moved: the call relocated the nodes already stored in the map
Call(op, m, key, val, ret, moved) ==
    [op |-> op, map |-> m, key |-> key, val |-> val, ret |-> ret, moved |-> moved]

Relocated(m, after) == Len(maps[m].store) > 0 /\ after[m].base # maps[m].base

Remove1(seq, k) == SelectSeq(seq, LAMBDA x : x # k)

MapInit ==
    /\ maps = [m \in MapIds |-> StrMap_new]
    /\ heap = <<>>
    /\ ref = [m \in MapIds |-> [k \in Keys |-> None]]
    /\ order = [m \in MapIds |-> <<>>]
    /\ last = Call("new", "self", "", Null, None, FALSE)

\* map.insert(k, v)
Insert(m, k, v) ==
    /\ ref[m][k] # None \/ Len(order[m]) < MaxLen
    /\ \E r \in {insert(World, m, k, v)} :
           /\ maps' = r.W.maps
           /\ heap' = r.W.heap
           /\ last' = Call("insert", m, k, v, Some(r.index), Relocated(m, r.W.maps))
    /\ ref' = [ref EXCEPT ![m][k] = Some(v)]
    /\ order' = IF ref[m][k] = None THEN [order EXCEPT ![m] = Append(@, k)] ELSE order

\* the reads of key k: map.get(k), map.get_mut(k) (the reference read and
\* released) and map[k]; ret is <<get, get_mut, index>>
Read(m, k) ==
    /\ last' = Call("read", m, k, Null,
                    <<get(World, m, k),
                      LET found == get_mut(World, m, k)
                      IN  IF found = None THEN None
                          ELSE Some(maps[m].store[found[1] + 1].value),
                      index(World, m, k)>>,
                    FALSE)
    /\ UNCHANGED <<maps, heap, ref, order>>

\* map.remove(k)
Remove(m, k) ==
    /\ \E r \in {remove(World, m, k)} :
           /\ maps' = r.W.maps
           /\ heap' = r.W.heap
           /\ last' = Call("remove", m, k, Null, r.removed, FALSE)
    /\ ref' = [ref EXCEPT ![m][k] = None]
    /\ order' = [order EXCEPT ![m] = Remove1(@, k)]

\* map.clear()
Clear(m) ==
    /\ \E W1 \in {clear(World, m)} :
           /\ maps' = W1.maps
           /\ heap' = W1.heap
    /\ last' = Call("clear", m, "", Null, None, FALSE)
    /\ ref' = [ref EXCEPT ![m] = [k \in Keys |-> None]]
    /\ order' = [order EXCEPT ![m] = <<>>]

\* map[k] = v
IndexAssign(m, k, v) ==
    /\ ref[m][k] # None \/ Len(order[m]) < MaxLen
    /\ \E r \in {index_mut(World, m, k)} :
           /\ maps' = [r.W.maps EXCEPT ![m].store[r.index + 1].value = v]
           /\ heap' = r.W.heap
           /\ last' = Call("index_assign", m, k, v, Some(r.index), Relocated(m, r.W.maps))
    /\ ref' = [ref EXCEPT ![m][k] = Some(v)]
    /\ order' = IF ref[m][k] = None THEN [order EXCEPT ![m] = Append(@, k)] ELSE order

\* b = a.clone(): the clone is made, the old b is dropped, the clone moves in
Clone(a, b) ==
    /\ \E W1 \in {clone(World, a, "clone")} :
       \E W2 \in {DropMapId(SetMap(drop_map(W1, b), b, W1.maps["clone"]), "clone")} :
           /\ maps' = W2.maps
           /\ heap' = W2.heap
    /\ last' = Call("clone", b, "", Null, None, FALSE)
    /\ ref' = [ref EXCEPT ![b] = ref[a]]
    /\ order' = [order EXCEPT ![b] = order[a]]

\* m goes out of scope, and a new map takes its name
Drop(m) ==
    /\ \E W1 \in {SetMap(drop_map(World, m), m, StrMap_new)} :
           /\ maps' = W1.maps
           /\ heap' = W1.heap
    /\ last' = Call("drop", m, "", Null, None, FALSE)
    /\ ref' = [ref EXCEPT ![m] = [k \in Keys |-> None]]
    /\ order' = [order EXCEPT ![m] = <<>>]

\* a == b
Eq(a, b) ==
    /\ last' = Call("eq", a, "", Null, Some(IF eq(World, a, b) THEN 1 ELSE 0), FALSE)
    /\ UNCHANGED <<maps, heap, ref, order>>

MapNext ==
    \/ \E k \in Keys, v \in Values : Insert("self", k, v)
    \/ \E k \in Keys : Read("self", k)
    \/ \E k \in Keys : Remove("self", k)
    \/ Clear("self")
    \/ \E k \in Keys, v \in Values : IndexAssign("self", k, v)

(***************************************************************************)
(* The state machine of one builder: builder is the builder in the       *)
(* caller's hands, calls the calls made on it so far.                      *)
(***************************************************************************)
WCall(op, arg) == <<op, arg>>

Depth(w) == Cardinality({i \in 1 .. Len(w) :
                w[i] \in {"EmptyObjectWriter", "ObjectWriter", "EmptyArrayWriter", "ArrayWriter"}})

WriterInit ==
    /\ builder = JsonWriter_new
    /\ calls = <<>>

CanCall == builder.text = None /\ Len(calls) < MaxCalls

\* w.object()
Object ==
    /\ CanCall /\ Top(builder.w) \in ValueWriters /\ Depth(builder.w) < MaxDepth
    /\ builder' = object(builder)
    /\ calls' = Append(calls, WCall("object", ""))

\* w.array()
Array ==
    /\ CanCall /\ Top(builder.w) \in ValueWriters /\ Depth(builder.w) < MaxDepth
    /\ builder' = array(builder)
    /\ calls' = Append(calls, WCall("array", ""))

\* w.value(val)
Value(val) ==
    /\ CanCall /\ Top(builder.w) \in ValueWriters
    /\ builder' = value(builder, val)
    /\ calls' = Append(calls, WCall("value", ToString(val)))

\* w.key(name)
Key(name) ==
    /\ CanCall /\ Top(builder.w) \in {"EmptyObjectWriter", "ObjectWriter"}
    /\ builder' = IF Top(builder.w) = "EmptyObjectWriter"
            THEN EmptyObjectWriter_key(builder, name)
            ELSE ObjectWriter_key(builder, name)
    /\ calls' = Append(calls, WCall("key", name))

\* w.close()
Close ==
    /\ CanCall
    /\ Top(builder.w) \in {"EmptyObjectWriter", "ObjectWriter", "EmptyArrayWriter", "ArrayWriter"}
    /\ builder' = CASE Top(builder.w) = "EmptyObjectWriter" -> EmptyObjectWriter_close(builder)
              [] Top(builder.w) = "ObjectWriter" -> ObjectWriter_close(builder)
              [] Top(builder.w) = "EmptyArrayWriter" -> EmptyArrayWriter_close(builder)
              [] Top(builder.w) = "ArrayWriter" -> ArrayWriter_close(builder)
    /\ calls' = Append(calls, WCall("close", ""))

\* w.pop(), the public method of the trait ValueWriter
Pop ==
    /\ CanCall /\ Top(builder.w) \in ValueWriters
    /\ builder' = pop(builder)
    /\ calls' = Append(calls, WCall("pop", ""))

\* a builder whose sink accepts n writes and fails every later one
SinkInit ==
    /\ \E n \in 0 .. MaxWrites : builder = [JsonWriter_new EXCEPT !.gen.left = n]
    /\ calls = <<>>

\* the calls of the fluent interface: object, array, value, key, close
FluentNext ==
    \/ Object
    \/ Array
    \/ \E val \in WriterVals : Value(val)
    \/ \E name \in WriterKeys : Key(name)
    \/ Close

\* every call a role's type exposes: the fluent interface and pop (gen only
\* hands out the generator the builder writes to)
PublicNext ==
    \/ FluentNext
    \/ Pop

(***************************************************************************)
(* The state machine of one serialization: dump is the value handed to     *)
(* generate, the generator it was handed with, and what generate handed    *)
(* back (None until it is called).                                         *)
(***************************************************************************)
\* the scalars of the value trees
Scalars == {JsonNull, JsonNumber(1), JsonString("s"), JsonString("s t")}

\* the keys of an Object's members, in the order of their insertion
MemberKeys == <<"b", "a", "d", "c", "f", "e", "h", "g">>

\* the value trees of exactly n nodes, and the sequences of trees of n nodes
\* in all
RECURSIVE Trees(_)
RECURSIVE Forests(_)
Forests(n) ==
    IF n = 0 THEN {<<>>}
    ELSE UNION {{<<t>> \o f : t \in Trees(k), f \in Forests(n - k)} : k \in 1 .. n}

Trees(n) ==
    (IF n = 1 THEN Scalars ELSE {})
        \cup {JsonArray(f) : f \in Forests(n - 1)}
        \cup {JsonObject([i \in 1 .. Len(f) |-> <<MemberKeys[i], f[i]>>]) : f \in Forests(n - 1)}

JsonValues == UNION {Trees(n) : n \in 1 .. MaxNodes}

\* the JsonValue a map's value stands for
ToValue(v) == IF v = Null THEN JsonNull ELSE JsonNumber(v)

\* the Object a map is: its pairs in the order of iter()
ObjectOf(W, m) ==
    JsonObject([i \in 1 .. Len(iter(W, m)) |-> <<iter(W, m)[i][1], ToValue(iter(W, m)[i][2])>>])

\* a generator of the given mode after d calls of indent()
GeneratorAt(pretty, left, d) ==
    [Generator_new(pretty, left) EXCEPT !.dent = IF pretty THEN d ELSE 0]

DumpInit ==
    dump = [val |-> JsonNull, gen |-> DumpGenerator_new, out |-> None]

\* val.generate(&mut gen), gen a generator at depth d
Generate(val, pretty, d) ==
    /\ dump.out = None
    /\ \E g \in {GeneratorAt(pretty, -1, d)} :
           dump' = [val |-> val, gen |-> g, out |-> Some(generate(val, g))]

\* val.generate(&mut gen), gen over a sink that fails after left writes
GenerateInto(val, pretty, left) ==
    /\ dump.out = None
    /\ \E g \in {Generator_new(pretty, left)} :
           dump' = [val |-> val, gen |-> g, out |-> Some(generate(val, g))]

\* object.generate(&mut gen), object the map m
DumpObject(m, pretty) ==
    /\ dump.out = None
    /\ \E val \in {ObjectOf(World, m)}, g \in {Generator_new(pretty, -1)} :
           dump' = [val |-> val, gen |-> g, out |-> Some(generate(val, g))]
    /\ UNCHANGED mapVars

GenNext ==
    /\ dump.out = None
    /\ \E val \in JsonValues, pretty \in BOOLEAN, d \in 0 .. MaxDent : Generate(val, pretty, d)

GenSinkNext ==
    /\ dump.out = None
    /\ \E val \in JsonValues, pretty \in BOOLEAN, left \in 0 .. MaxSinkWrites :
           GenerateInto(val, pretty, left)

\* a map is filled and emptied, then serialized
DumpNext ==
    \/ \E k \in Keys, v \in Values : dump.out = None /\ Insert("self", k, v) /\ UNCHANGED dump
    \/ \E k \in Keys : dump.out = None /\ Remove("self", k) /\ UNCHANGED dump
    \/ \E pretty \in BOOLEAN : DumpObject("self", pretty)

(***************************************************************************)
(* Specifications.                                                         *)
(***************************************************************************)
(***************************************************************************)
(* A conversion and a comparison: cmp is None, then the JsonValue, what it *)
(* was compared with, and what == gave.                                    *)
(***************************************************************************)
RECURSIVE Repeat(_, _)
Repeat(c, n) == IF n = 0 THEN "" ELSE c \o Repeat(c, n - 1)

\* the strings: n times "a" or n times "b"
Strs == {Repeat(c, n) : c \in {"a", "b"}, n \in 0 .. MaxStrLen}

\* the members an Object is built from: the colliding keys "a" and "gb", in
\* either order
Pairs ==
    {<<>>}
        \cup {<<(<<k, v>>)>> : k \in {"a", "gb"}, v \in Values}
        \cup UNION {{<<(<<k1, v1>>), (<<k2, v2>>)>> :
                        k2 \in {"a", "gb"} \ {k1}, v1 \in Values, v2 \in Values} :
                    k1 \in {"a", "gb"}}

\* the values compared: strings both as converted from &str and from String,
\* and every other variant
CmpValues ==
    {From_str(s) : s \in Strs} \cup {From_String(s) : s \in Strs}
        \cup {JsonNull, JsonArray(<<>>)}
        \cup {JsonNumber(n) : n \in 0 .. 1}
        \cup {JsonBoolean(b) : b \in BOOLEAN}
        \cup {JsonObject(p) : p \in Pairs}

\* self == other and other == self, by the type of other; other is
\* [kind |-> its type, v |-> its value]
JsonValue_eq(self, other) ==
    IF other.kind = "str"
    THEN <<eq_str(self, other.v), str_eq(other.v, self)>>
    ELSE <<implement_eq(other.kind, self, other.v), implement_eq(other.kind, self, other.v)>>

\* JsonValue::from(s) == t
FromAndCompare(s, t) ==
    /\ cmp = None
    /\ \E self \in {From_str(s)} :
           cmp' = [from |-> Some(s), self |-> self, other |-> [kind |-> "str", v |-> t],
                   ret |-> JsonValue_eq(self, [kind |-> "str", v |-> t])]

\* self == other
Compare(self, other) ==
    /\ cmp = None
    /\ cmp' = [from |-> None, self |-> self, other |-> other,
               ret |-> JsonValue_eq(self, other)]

CmpNext ==
    \/ cmp = None /\ \E s \in Strs, t \in Strs : FromAndCompare(s, t)
    \/ cmp = None /\ \E self \in CmpValues, t \in Strs : Compare(self, [kind |-> "str", v |-> t])
    \/ cmp = None /\ \E self \in CmpValues, n \in 0 .. 1 : Compare(self, [kind |-> "Number", v |-> n])
    \/ cmp = None /\ \E self \in CmpValues, b \in BOOLEAN : Compare(self, [kind |-> "Boolean", v |-> b])
    \/ cmp = None /\ \E self \in CmpValues, p \in Pairs : Compare(self, [kind |-> "Object", v |-> p])

Init == MapInit /\ WriterInit /\ DumpInit /\ cmp = None

\* one map, every operation of its interface
Spec == Init /\ [][MapNext /\ UNCHANGED <<writerVars, dump, cmp>>]_vars

\* the keys the two maps of SpecEq are built from
EqKeys == {"a", "gb", "k33"}

\* a map filled, emptied, and replaced by its clone
TreeNext ==
    \/ \E k \in Keys, v \in Values : Insert("self", k, v)
    \/ \E k \in Keys : Remove("self", k)
    \/ Clear("self")
    \/ Clone("self", "self")

SpecTree == Init /\ [][TreeNext /\ UNCHANGED <<writerVars, dump, cmp>>]_vars

\* the keys the two maps of SpecClone hold
CloneKeys == {"k32", "k33"}

\* "other" is a clone of "self"; both are then changed, and dropped
CloneNext ==
    \/ \E m \in MapIds, k \in CloneKeys, v \in Values : Insert(m, k, v)
    \/ \E m \in MapIds, k \in CloneKeys : Remove(m, k)
    \/ \E m \in MapIds : Clear(m)
    \/ Clone("self", "other")
    \/ \E m \in MapIds : Drop(m)

SpecClone == Init /\ [][CloneNext /\ UNCHANGED <<writerVars, dump, cmp>>]_vars

\* "self" is built first, then "other"
EqNext ==
    \/ \E k \in EqKeys, v \in Values : order["other"] = <<>> /\ Insert("self", k, v)
    \/ \E k \in EqKeys, v \in Values : Insert("other", k, v)
    \/ Eq("self", "other")
    \/ Eq("other", "self")

\* two maps built by inserts in any order, and compared
SpecEq == Init /\ [][EqNext /\ UNCHANGED <<writerVars, dump, cmp>>]_vars

\* one builder driven through the fluent interface
SpecWriter == Init /\ [][FluentNext /\ UNCHANGED <<mapVars, dump, cmp>>]_vars

\* one builder driven through the fluent interface, over a sink that fails
InitSink == MapInit /\ SinkInit /\ DumpInit /\ cmp = None

SpecWriterSink == InitSink /\ [][FluentNext /\ UNCHANGED <<mapVars, dump, cmp>>]_vars

\* one value tree serialized in one mode
SpecGen == Init /\ [][GenNext /\ UNCHANGED <<mapVars, writerVars, cmp>>]_vars

\* one value tree serialized into a sink that fails
SpecGenSink == Init /\ [][GenSinkNext /\ UNCHANGED <<mapVars, writerVars, cmp>>]_vars

\* one map serialized after inserts and removes
SpecDump == Init /\ [][DumpNext /\ UNCHANGED <<writerVars, cmp>>]_vars

\* one JsonValue compared with one value of another type
SpecValue == Init /\ [][CmpNext /\ UNCHANGED <<mapVars, writerVars, dump>>]_vars

\* one builder driven through everything its types expose
SpecWriterPublic == Init /\ [][PublicNext /\ UNCHANGED <<mapVars, dump, cmp>>]_vars

(***************************************************************************)
(* Properties of the maps.                                                 *)
(***************************************************************************)
WorldNext == [maps |-> maps', heap |-> heap']

IterKeys(W, m) == [i \in 1 .. Len(iter(W, m)) |-> iter(W, m)[i][1]]

IterVals(W, m) == [i \in 1 .. Len(iter(W, m)) |-> iter(W, m)[i][2]]

\* the pairs of a sequence of (key, value) pairs whose key is not k
WithoutKey(pairs, k) == SelectSeq(pairs, LAMBDA p : p[1] # k)

\* C1: iter() yields the members in the order in which each key was first
\* inserted, whatever the hashes, each with the value last inserted for it:
\* an insert of a present key replaces the value and changes neither the
\* position of the entry nor the length.
C1_IterInsertionOrder ==
    /\ IterKeys(World, "self") = order["self"]
    /\ \A i \in 1 .. Len(order["self"]) :
          Some(IterVals(World, "self")[i]) = ref["self"][order["self"][i]]

\* an insert overwrote the first of three entries, two of which collide
C1_Witness ==
    /\ last.op = "insert" /\ last.key = "a" /\ last.ret = Some(0)
    /\ order["self"] = <<"a", "gb", "k32">>
    /\ IterVals(World, "self") = <<1, Null, Null>>

\* C2: after any sequence of insert, remove and clear, get(k) and get_mut(k)
\* agree with the reference map for every key k, colliding hashes included.
C2_LookupAgreesWithReference ==
    /\ \A k \in Keys :
          /\ get(World, "self", k) = ref["self"][k]
          /\ LET found == get_mut(World, "self", k)
             IN  IF found = None THEN ref["self"][k] = None
                 ELSE ref["self"][k] = Some(maps["self"].store[found[1] + 1].value)
    /\ last.op = "read"
          => last.ret[1] = ref[last.map][last.key] /\ last.ret[2] = ref[last.map][last.key]

\* get and get_mut found the second of two colliding keys, after a removal
C2_Witness ==
    /\ last.op = "read" /\ last.key = "gb"
    /\ last.ret[1] = Some(1) /\ last.ret[2] = Some(1)
    /\ ref["self"]["a"] = Some(Null)
    /\ order["self"] = <<"k33", "a", "gb">>
    /\ maps["self"].cap = 2 * 2

\* C3: for a key that is not a member, get and get_mut return None and
\* map[key] returns Null, and the map is left as it was.
C3_AbsentKeyLookups ==
    [][(last'.op = "read" /\ ref[last'.map][last'.key] = None)
          => /\ last'.ret = <<None, None, Null>>
             /\ maps' = maps
             /\ heap' = heap]_mapVars

\* "gb" was read while only the colliding key "a" is a member
C3_Witness ==
    /\ last.op = "read" /\ last.key = "gb" /\ last.ret = <<None, None, Null>>
    /\ ref["self"]["gb"] = None
    /\ ref["self"]["a"] = Some(1)

\* C4: remove(k) of a member returns the value stored under k; afterwards
\* get(k) is None, len() is smaller by one and the other entries are there
\* with their values, in the same relative order.
C4_RemoveMember ==
    [][(last'.op = "remove" /\ ref[last'.map][last'.key] # None)
          => /\ last'.ret = ref[last'.map][last'.key]
             /\ get(WorldNext, last'.map, last'.key) = None
             /\ len(WorldNext, last'.map) = len(World, last'.map) - 1
             /\ iter(WorldNext, last'.map) = WithoutKey(iter(World, last'.map), last'.key)
             /\ \A k \in Keys \ {last'.key} :
                   get(WorldNext, last'.map, k) = get(World, last'.map, k)]_mapVars

\* the entry at index 0 was removed from a map of three
C4_Witness ==
    /\ last.op = "remove" /\ last.key = "a" /\ last.ret = Some(1)
    /\ order["self"] = <<"gb", "k33">>
    /\ IterVals(World, "self") = <<1, Null>>

\* C5: remove(k) of a key that is not a member returns None and changes
\* nothing: length, order, values and links are as before.
C5_RemoveAbsent ==
    [][(last'.op = "remove" /\ ref[last'.map][last'.key] = None)
          => /\ last'.ret = None
             /\ maps' = maps
             /\ heap' = heap]_mapVars

\* "gb" was removed from a map that holds the colliding key "a", not "gb"
C5_Witness ==
    /\ last.op = "remove" /\ last.key = "gb" /\ last.ret = None
    /\ order["self"] = <<"k32", "a", "k33">>

Members(m) == {k \in Keys : ref[m][k] # None}

SamePairs ==
    /\ Cardinality(Members("self")) = Cardinality(Members("other"))
    /\ \A k \in Members("self") : ref["other"][k] = ref["self"][k]

\* C6: two maps compare equal iff they have the same number of members and
\* every pair of one is in the other with an equal value, whatever the
\* insertion orders; and the comparison is symmetric.
C6_EqOrderIndependent ==
    /\ eq(World, "self", "other") = SamePairs
    /\ eq(World, "other", "self") = SamePairs
    /\ last.op = "eq" => last.ret = Some(IF SamePairs THEN 1 ELSE 0)

\* two maps of three pairs, built in different orders, compared equal
C6_Witness ==
    /\ last.op = "eq" /\ last.ret = Some(1)
    /\ order["self"] = <<"a", "gb", "k33">>
    /\ order["other"] = <<"k33", "gb", "a">>
    /\ ref["self"]["a"] = Some(1)

\* C7: &mut map[key] never fails.  For an absent key it inserts key with
\* Null at the end (the length grows by one) and yields the new slot; for a
\* member it yields the member's slot and changes neither length nor order.
\* After map[key] = v, map[key] reads v.
C7_IndexMut ==
    [][last'.op = "index_assign"
          => \E m \in {last'.map}, k \in {last'.key}, before \in {iter(World, last'.map)} :
             \E r \in {index_mut(World, m, k)}, n \in {Len(before)} :
             \E borrowed \in {iter(r.W, m)} :
                 /\ last'.ret = Some(r.index)
                 /\ borrowed[r.index + 1][1] = k
                 /\ ref[m][k] = None
                       => /\ r.index = n
                          /\ Len(borrowed) = n + 1
                          /\ SubSeq(borrowed, 1, n) = before
                          /\ index(r.W, m, k) = Null
                 /\ ref[m][k] # None
                       => /\ r.index = CHOOSE i \in 0 .. n - 1 : order[m][i + 1] = k
                          /\ borrowed = before
                 /\ iter(WorldNext, m) = [borrowed EXCEPT ![r.index + 1] = <<k, last'.val>>]
                 /\ index(WorldNext, m, k) = last'.val]_mapVars

\* map["k33"] = 1 added the third entry
C7_Witness ==
    /\ last.op = "index_assign" /\ last.key = "k33" /\ last.val = 1
    /\ last.ret = Some(2)
    /\ order["self"] = <<"a", "gb", "k33">>
    /\ index(World, "self", "k33") = 1

\* C8: however often the storage has grown and moved, every key resolves to
\* its own bytes and is found by get: an inline key (at most KEY_BUF_LEN
\* bytes) points to the buffer of its own, current record, a longer key to
\* its own live heap buffer.
C8_KeysResolveAfterGrowth ==
    \A i \in 1 .. Len(maps["self"].store) :
        LET node == maps["self"].store[i]
            k == order["self"][i]
        IN  /\ node.key.len = key_len(k)
            /\ key_len(k) <= KEY_BUF_LEN
                  => /\ node.key.ptr = <<"inline", maps["self"].base, i - 1>>
                     /\ node.key.buf = k
            /\ key_len(k) > KEY_BUF_LEN
                  => /\ node.key.ptr[1] = "heap"
                     /\ node.key.ptr[2] \in DOMAIN heap
                     /\ heap[node.key.ptr[2]] = k
                     /\ \A j \in 1 .. Len(maps["self"].store) :
                           j # i => maps["self"].store[j].key.ptr # node.key.ptr
            /\ as_bytes(World, node.key) = k
            /\ get(World, "self", k) = Some(node.value)

\* the third insert moved a key of KEY_BUF_LEN bytes and a longer key
C8_Witness ==
    /\ last.op = "insert" /\ last.moved /\ last.ret = Some(2)
    /\ order["self"] = <<"k32", "k33", "a">>
    /\ maps["self"].cap = 2 * 2

(***************************************************************************)
(* Properties of the fluent writer.                                        *)
(***************************************************************************)
\* the brackets of t, from its i-th piece on, close the open ones of stack
\* in nested order and leave none open
RECURSIVE BalancedFrom(_, _, _)
BalancedFrom(t, i, stack) ==
    IF i > Len(t) THEN stack = <<>>
    ELSE IF t[i] \in {"{", "["} THEN BalancedFrom(t, i + 1, Append(stack, t[i]))
    ELSE IF t[i] = "}"
    THEN stack # <<>> /\ Top(stack) = "{" /\ BalancedFrom(t, i + 1, Front(stack))
    ELSE IF t[i] = "]"
    THEN stack # <<>> /\ Top(stack) = "[" /\ BalancedFrom(t, i + 1, Front(stack))
    ELSE BalancedFrom(t, i + 1, stack)

\* the position of the bracket closing the one opened before i (0: none)
RECURSIVE ClosingFrom(_, _, _)
ClosingFrom(t, i, depth) ==
    IF i > Len(t) THEN 0
    ELSE IF t[i] \in {"{", "["} THEN ClosingFrom(t, i + 1, depth + 1)
    ELSE IF t[i] \in {"}", "]"}
    THEN IF depth = 0 THEN i ELSE ClosingFrom(t, i + 1, depth - 1)
    ELSE ClosingFrom(t, i + 1, depth)

Punctuation == {"{", "}", "[", "]", ",", ":"}

\* the position of the last piece of the value that starts at i (0: no value)
ValueEnd(t, i) ==
    IF i > Len(t) THEN 0
    ELSE IF t[i] \in {"{", "["} THEN ClosingFrom(t, i + 1, 0)
    ELSE IF t[i] \in Punctuation THEN 0
    ELSE i

\* every key (the piece before a ':') is followed by exactly one value
KeysHaveValues(t) ==
    \A i \in 1 .. Len(t) :
        t[i] = ":" =>
            LET e == ValueEnd(t, i + 1)
            IN  e # 0 /\ e < Len(t) /\ t[e + 1] \in {",", "}"}

\* no comma is leading, trailing or doubled
CommasSeparate(t) ==
    \A i \in 1 .. Len(t) :
        t[i] = "," =>
            /\ i > 1 /\ t[i - 1] \notin {"{", "[", ",", ":"}
            /\ i < Len(t) /\ t[i + 1] \notin {"}", "]", ",", ":"}

\* C9: every text a chain of builder calls yields, the public trait method
\* pop among the calls, is balanced JSON: the brackets match in
\* nested order, every key is followed by exactly one value, and no comma
\* is leading, trailing or doubled.
C9_BalancedOutput ==
    builder.text # None
        => /\ BalancedFrom(builder.text[1], 1, <<>>)
           /\ KeysHaveValues(builder.text[1])
           /\ CommasSeparate(builder.text[1])

RECURSIVE Concat(_, _)
Concat(t, i) == IF i > Len(t) THEN "" ELSE t[i] \o Concat(t, i + 1)

\* the calls are object(), n times key(k).value(v), close()
IsObjectScript(cs) ==
    /\ Len(cs) >= 2 /\ Len(cs) % 2 = 0
    /\ cs[1] = WCall("object", "")
    /\ cs[Len(cs)] = WCall("close", "")
    /\ \A j \in 1 .. (Len(cs) - 2) \div 2 :
          cs[2 * j][1] = "key" /\ cs[2 * j + 1][1] = "value"

\* the members 'key:value' of an object script from the j-th on, a ','
\* before each but the first
RECURSIVE MembersFrom(_, _)
MembersFrom(cs, j) ==
    IF 2 * j + 1 >= Len(cs) THEN <<>>
    ELSE (IF j > 1 THEN <<",">> ELSE <<>>)
         \o <<"\"" \o cs[2 * j][2] \o "\"", ":", cs[2 * j + 1][2]>>
         \o MembersFrom(cs, j + 1)

\* C10: object(), n >= 0 steps key(k).value(v) and close() yield '{', the n
\* members 'key:value' in call order and '}': no comma before the first
\* key, exactly one before every later key, a ':' right after every key;
\* object().key("a").value(1).key("b").value(2).close() is {"a":1,"b":2}.
C10_ObjectText ==
    /\ IsObjectScript(calls)
          => builder.text = Some(<<"{">> \o MembersFrom(calls, 1) \o <<"}">>)
    /\ calls = <<WCall("object", ""), WCall("key", "a"), WCall("value", "1"),
                 WCall("key", "b"), WCall("value", "2"), WCall("close", "")>>
          => /\ builder.text # None
             /\ Concat(builder.text[1], 1) = "{\"a\":1,\"b\":2}"

\* an object of three members was written and closed
C10_Witness ==
    /\ builder.text # None
    /\ calls = <<WCall("object", ""), WCall("key", "a"), WCall("value", "1"),
                 WCall("key", "b"), WCall("value", "2"), WCall("key", "a"),
                 WCall("value", "1"), WCall("close", "")>>
    /\ Concat(builder.text[1], 1) = "{\"a\":1,\"b\":2,\"a\":1}"

\* the piece an element starts with: the opening bracket of a nested
\* container, or the text of a scalar
ElementStart(c) ==
    CASE c[1] = "object" -> "{"
      [] c[1] = "array" -> "["
      [] c[1] = "value" -> c[2]

\* the pieces a step appends to the generator's buffer
Written == SubSeq(builder'.gen.code, Len(builder.gen.code) + 1, Len(builder'.gen.code))

\* C11: an element written into an array (by value, object or array) right
\* after the array's '[' is not preceded by a comma; an element written after
\* an earlier element is preceded by exactly one ',', which for a nested
\* container stands before its opening bracket.
C11_ArrayElementCommas ==
    [][(/\ builder.text = None
        /\ Top(builder.w) \in {"EmptyArrayWriter", "ArrayWriter"}
        /\ calls' # calls
        /\ calls'[Len(calls')][1] \in {"object", "array", "value"})
          => /\ builder'.text = None
             /\ SubSeq(builder'.gen.code, 1, Len(builder.gen.code)) = builder.gen.code
             /\ Written = IF builder.gen.code[Len(builder.gen.code)] = "["
                            THEN <<ElementStart(calls'[Len(calls')])>>
                            ELSE <<",", ElementStart(calls'[Len(calls')])>>]_vars

\* an array of a scalar, a nested object and a nested array was written
C11_Witness ==
    /\ calls = <<WCall("array", ""), WCall("value", "1"), WCall("object", ""),
                 WCall("close", ""), WCall("array", ""), WCall("close", ""),
                 WCall("close", "")>>
    /\ builder.text = Some(<<"[", "1", ",", "{", "}", ",", "[", "]", "]">>)

\* C12: from the role reached by key(name) every call writes a value: the
\* call appends to the buffer, and what it appends starts a scalar or a
\* nested container; no call leaves the role with nothing written.
C12_KeyAwaitsValue ==
    [][(/\ builder.text = None
        /\ Top(builder.w) = "ObjectValueWriter"
        /\ builder' # builder)
          => /\ Written # <<>>
             /\ Written[1] \notin {"}", "]", ",", ":"}]_vars

\* the brackets of t, from its i-th piece on, that are opened and not closed,
\* innermost last
RECURSIVE OpenBrackets(_, _, _)
OpenBrackets(t, i, stack) ==
    IF i > Len(t) THEN stack
    ELSE IF t[i] \in {"{", "["} THEN OpenBrackets(t, i + 1, Append(stack, t[i]))
    ELSE IF t[i] \in {"}", "]"} /\ stack # <<>> THEN OpenBrackets(t, i + 1, Front(stack))
    ELSE OpenBrackets(t, i + 1, stack)

\* C13: the builder has handed back the text, and given up the generator,
\* exactly when the outermost value is finished: a call was made and no
\* container is left open.  The close of a nested container hands back the
\* builder of the enclosing container in its 'value written' role: the
\* non-empty array when that container is an array, the first element
\* included, and the non-empty object when it is an object.
C13_TextWhenOutermostFinished ==
    /\ builder.text # None
          => /\ calls # <<>>
             /\ OpenBrackets(builder.text[1], 1, <<>>) = <<>>
             /\ builder.w = <<>> /\ builder.gen.code = <<>>
    /\ (builder.text = None /\ calls # <<>>)
          => /\ OpenBrackets(builder.gen.code, 1, <<>>) # <<>>
             /\ calls[Len(calls)][1] = "close"
                   => Top(builder.w) =
                         IF Top(OpenBrackets(builder.gen.code, 1, <<>>)) = "["
                         THEN "ArrayWriter" ELSE "ObjectWriter"

\* a nested array, the first element of its parent, was closed
C13_Witness ==
    /\ calls = <<WCall("array", ""), WCall("array", ""), WCall("close", "")>>
    /\ builder.text = None
    /\ Top(builder.w) = "ArrayWriter"

(***************************************************************************)
(* Properties of the serialization.                                        *)
(***************************************************************************)
\* the values directly inside val
Children(val) ==
    CASE val.t = "Array" -> val.v
      [] val.t = "Object" -> [i \in 1 .. Len(val.v) |-> val.v[i][2]]
      [] OTHER -> <<>>

\* the containers of val, itself included, that have nothing inside
RECURSIVE EmptyContainers(_)
RECURSIVE EmptyContainersIn(_, _)
EmptyContainersIn(vals, i) ==
    IF i > Len(vals) THEN 0
    ELSE EmptyContainers(vals[i]) + EmptyContainersIn(vals, i + 1)

EmptyContainers(val) ==
    IF val.t \in {"Array", "Object"} /\ val.v = <<>> THEN 1
    ELSE EmptyContainersIn(Children(val), 1)

Whitespace == {"\n", " "}

\* the position of the first piece after i that is not whitespace (past the
\* end: none)
RECURSIVE NextSolid(_, _)
NextSolid(code, i) ==
    IF i + 1 > Len(code) \/ code[i + 1] \notin Whitespace THEN i + 1
    ELSE NextSolid(code, i + 1)

\* what generate handed back: the pieces written, and the generator
Dumped == dump.out[1].g.code

\* C14: an empty object is written as '{}' and an empty sequence as '[]', in
\* the compact and in the pretty mode and from every indentation depth, and
\* the depth is the same afterwards; inside a larger value every empty
\* container is a bracket pair with nothing between, and no bracket pair has
\* only whitespace between.
C14_EmptyContainersCollapse ==
    dump.out # None
        => /\ dump.out[1].ok
           /\ dump.val = JsonObject(<<>>)
                 => Dumped = <<"{", "}">> /\ dump.out[1].g.dent = dump.gen.dent
           /\ dump.val = JsonArray(<<>>)
                 => Dumped = <<"[", "]">> /\ dump.out[1].g.dent = dump.gen.dent
           /\ Cardinality({i \in 1 .. Len(Dumped) - 1 :
                  <<Dumped[i], Dumped[i + 1]>> \in {<<"{", "}">>, <<"[", "]">>}})
                 = EmptyContainers(dump.val)
           /\ \A i \in 1 .. Len(Dumped) :
                 (/\ Dumped[i] \in {"{", "["}
                  /\ NextSolid(Dumped, i) <= Len(Dumped)
                  /\ Dumped[NextSolid(Dumped, i)] \in {"}", "]"})
                    => NextSolid(Dumped, i) = i + 1

\* an empty sequence and an empty object, nested in a sequence, were written
\* in the pretty mode from depth 1
C14_Witness ==
    /\ dump.out # None
    /\ dump.gen.pretty /\ dump.gen.dent = 1
    /\ dump.val = JsonArray(<<JsonArray(<<>>), JsonObject(<<>>)>>)
    /\ Dumped = <<"[", "\n", " ", " ", " ", " ", "[", "]", ",",
                  "\n", " ", " ", " ", " ", "{", "}", "\n", " ", " ", "]">>

\* a piece of the output with its whitespace bytes deleted
StripPiece(piece) ==
    CASE piece \in Whitespace -> ""
      [] piece = ": " -> ":"
      [] piece = "\"s t\"" -> "\"st\""
      [] OTHER -> piece

\* the text of the pieces from the i-th on, the whitespace bytes deleted
RECURSIVE Stripped(_, _)
Stripped(code, i) ==
    IF i > Len(code) THEN "" ELSE StripPiece(code[i]) \o Stripped(code, i + 1)

\* val has a string with whitespace in it
RECURSIVE HasWhitespace(_)
HasWhitespace(val) ==
    \/ val = JsonString("s t")
    \/ \E i \in 1 .. Len(Children(val)) : HasWhitespace(Children(val)[i])

\* C15: for a value tree whose strings have no whitespace, the pretty output
\* with every whitespace byte deleted is the compact output, byte for byte.
C15_PrettyStripsToCompact ==
    (dump.out # None /\ dump.gen.pretty /\ ~HasWhitespace(dump.val))
        => Stripped(Dumped, 1)
              = Concat(generate(dump.val, Generator_new(FALSE, -1)).g.code, 1)

\* an object holding a sequence of two was written in the pretty mode
C15_Witness ==
    /\ dump.out # None
    /\ dump.gen.pretty /\ dump.gen.dent = 0
    /\ dump.val = JsonObject(<<<<"b", JsonArray(<<JsonNumber(1), JsonString("s")>>)>>>>)
    /\ Dumped = <<"{", "\n", " ", " ", "\"b\"", ": ", "[",
                  "\n", " ", " ", " ", " ", "1", ",",
                  "\n", " ", " ", " ", " ", "\"s\"",
                  "\n", " ", " ", "]", "\n", "}">>
    /\ Stripped(Dumped, 1) = "{\"b\":[1,\"s\"]}"

\* the text of a map's value
ValueText(v) == IF v = Null THEN "null" ELSE ToString(v)

\* the members 'key:value' of the keys from the i-th on, a ',' before each
\* but the first
RECURSIVE MemberPieces(_, _, _)
MemberPieces(keys, values, i) ==
    IF i > Len(keys) THEN <<>>
    ELSE (IF i > 1 THEN <<",">> ELSE <<>>)
         \o <<"\"" \o keys[i] \o "\"", ":", ValueText(values[keys[i]][1])>>
         \o MemberPieces(keys, values, i + 1)

\* the pieces from the i-th on that are not whitespace, the separator without
\* its space
RECURSIVE Solid(_, _)
Solid(code, i) ==
    IF i > Len(code) THEN <<>>
    ELSE (IF code[i] \in Whitespace THEN <<>> ELSE <<StripPiece(code[i])>>)
         \o Solid(code, i + 1)

\* C16: a serialized Object is '{', its members in the order of their
\* insertion, each as key, separator and value, one ',' between consecutive
\* members and none before the first or after the last, and '}'; in the
\* compact mode nothing else is written, and the separator is ':'.
C16_ObjectMembersInOrder ==
    dump.out # None
        => /\ dump.out[1].ok
           /\ Solid(Dumped, 1)
                 = <<"{">> \o MemberPieces(order["self"], ref["self"], 1) \o <<"}">>
           /\ ~dump.gen.pretty => Dumped = Solid(Dumped, 1)

\* a map of two members, left after a remove, was written in the compact mode
C16_Witness ==
    /\ dump.out # None
    /\ ~dump.gen.pretty
    /\ last.op = "remove"
    /\ order["self"] = <<"k33", "a">>
    /\ Dumped = <<"{", "\"k33\"", ":", "1", ",", "\"a\"", ":", "null", "}">>

\* the containers open after the i-th piece
Opens(code, i) ==
    Cardinality({j \in 1 .. i : code[j] \in {"{", "["}})
        - Cardinality({j \in 1 .. i : code[j] \in {"}", "]"}})

\* a newline at i, then exactly n spaces
LineBreakAt(code, i, n) ==
    /\ i >= 1 /\ i + n + 1 <= Len(code)
    /\ code[i] = "\n"
    /\ \A j \in i + 1 .. i + n : code[j] = " "
    /\ code[i + n + 1] # " "

\* the members of the objects of val, at any depth
RECURSIVE MemberCount(_)
RECURSIVE MemberCountIn(_, _)
MemberCountIn(vals, i) ==
    IF i > Len(vals) THEN 0
    ELSE MemberCount(vals[i]) + MemberCountIn(vals, i + 1)

MemberCount(val) ==
    (IF val.t = "Object" THEN Len(val.v) ELSE 0) + MemberCountIn(Children(val), 1)

\* C17: in the pretty mode, with d the depth a non-empty object or sequence
\* is opened at: a newline and d + 1 indentation units follow its opening
\* bracket and every ',' of it, a newline and d units stand before its
\* closing bracket, and every key is followed by ': '.
C17_PrettyLayout ==
    (dump.out # None /\ dump.gen.pretty)
        => /\ dump.out[1].ok
           /\ \A i \in 1 .. Len(Dumped) :
                 LET inside == (dump.gen.dent + Opens(Dumped, i)) * SpacesPerIndent
                 IN  /\ (Dumped[i] \in {"{", "["} /\ Dumped[i + 1] \notin {"}", "]"})
                           => LineBreakAt(Dumped, i + 1, inside)
                     /\ Dumped[i] = ","
                           => LineBreakAt(Dumped, i + 1, inside)
                     /\ (Dumped[i] \in {"}", "]"} /\ Dumped[i - 1] \notin {"{", "["})
                           => LineBreakAt(Dumped, i - 1 - inside, inside)
                     /\ Dumped[i] # ":"
           /\ Cardinality({i \in 1 .. Len(Dumped) : Dumped[i] = ": "})
                 = MemberCount(dump.val)

\* a sequence holding an object of one member and a scalar was written in
\* the pretty mode from depth 1
C17_Witness ==
    /\ dump.out # None
    /\ dump.gen.pretty /\ dump.gen.dent = 1
    /\ dump.val = JsonArray(<<JsonObject(<<<<"b", JsonNumber(1)>>>>), JsonNull>>)
    /\ Dumped = <<"[", "\n", " ", " ", " ", " ", "{",
                  "\n", " ", " ", " ", " ", " ", " ", "\"b\"", ": ", "1",
                  "\n", " ", " ", " ", " ", "}", ",",
                  "\n", " ", " ", " ", " ", "null",
                  "\n", " ", " ", "]">>

Links(M, i) == {M.store[i + 1].left, M.store[i + 1].right} \ {0}

\* the indices reached from those of S by zero or more links
RECURSIVE Reach(_, _)
Reach(M, S) ==
    LET T == S \cup UNION {Links(M, i) : i \in S}
    IN  IF T = S THEN S ELSE Reach(M, T)

\* the indices of the subtree under a link (0: the empty subtree)
Subtree(M, link) == IF link = 0 THEN {} ELSE Reach(M, {link})

\* C19: in a map no two nodes have the same hash and key bytes, the hash a
\* node caches is the hash of its key's bytes, every link leads to a stored
\* node, and every stored node is reached from the node at index 0.
C19_NodesDistinctAndReachable ==
    \A m \in MapIds :
        LET M == maps[m]
            n == Len(M.store)
            bytes == [i \in 0 .. n - 1 |-> as_bytes(World, M.store[i + 1].key)]
        IN  /\ \A i, j \in 0 .. n - 1 :
                  (i # j) => <<M.store[i + 1].key.hash, bytes[i]>>
                                # <<M.store[j + 1].key.hash, bytes[j]>>
            /\ \A i \in 0 .. n - 1 :
                  /\ bytes[i] \in Keys
                  /\ M.store[i + 1].key.hash = hash_key(bytes[i])
                  /\ Links(M, i) \subseteq 1 .. n - 1
            /\ n > 0 => Reach(M, {0}) = 0 .. n - 1

\* a map of three nodes, one of them under another's child, was cloned
C19_Witness ==
    /\ last.op = "clone"
    /\ order["self"] = <<"a", "k32", "gb">>
    /\ Reach(maps["self"], {0}) = {0, 1, 2}
    /\ maps["self"].store[1].right = 2

\* C20: the links order the tree by hash: under the left link of a node every
\* hash is smaller than the node's, under its right link every hash is
\* greater or equal, and equal only with other key bytes.
C20_SearchTreeByHash ==
    \A m \in MapIds :
        LET M == maps[m]
        IN  \A i \in 0 .. Len(M.store) - 1 :
                /\ \A j \in Subtree(M, M.store[i + 1].left) :
                      M.store[j + 1].key.hash < M.store[i + 1].key.hash
                /\ \A j \in Subtree(M, M.store[i + 1].right) :
                      /\ M.store[j + 1].key.hash >= M.store[i + 1].key.hash
                      /\ M.store[j + 1].key.hash = M.store[i + 1].key.hash
                            => as_bytes(World, M.store[j + 1].key)
                                  # as_bytes(World, M.store[i + 1].key)

\* a key of equal hash and other bytes sits under the right link, a key of
\* smaller hash under the left link
C20_Witness ==
    /\ order["self"] = <<"a", "gb", "k32">>
    /\ maps["self"].store[1].right = 1
    /\ maps["self"].store[1].left = 2
    /\ maps["self"].store[1].key.hash = maps["self"].store[2].key.hash

\* the nodes the walk for a key of the given hash visits from node at on, by
\* the comparisons of the walks of insert, get, get_mut and remove
RECURSIVE WalkLen(_, _, _, _, _)
WalkLen(W, id, at, key, hash) ==
    LET node == W.maps[id].store[at + 1]
    IN  IF hash = node.key.hash /\ key = as_bytes(W, node.key) THEN 1
        ELSE IF hash < node.key.hash
        THEN IF node.left = 0 THEN 1 ELSE 1 + WalkLen(W, id, node.left, key, hash)
        ELSE IF node.right = 0 THEN 1 ELSE 1 + WalkLen(W, id, node.right, key, hash)

\* the links that hold the index j: <<holder, side>>
Holders(M, j) ==
    {<<i, "left">> : i \in {h \in 0 .. Len(M.store) - 1 : M.store[h + 1].left = j}}
        \cup {<<i, "right">> : i \in {h \in 0 .. Len(M.store) - 1 : M.store[h + 1].right = j}}

\* C21: every link is 0 or the index of a stored node greater than the index
\* of the node holding it, and every index but 0 is held by exactly one link;
\* so index 0 is no node's child, the links have no cycle, and the walks of
\* insert, get, get_mut and remove end, for every key, after at most as many
\* nodes as the map stores.
C21_LinksForwardAndUnique ==
    \A m \in MapIds :
        LET M == maps[m]
            n == Len(M.store)
        IN  /\ \A i \in 0 .. n - 1 :
                  \A l \in {M.store[i + 1].left, M.store[i + 1].right} :
                      l = 0 \/ (i < l /\ l < n)
            /\ \A j \in 1 .. n - 1 : Cardinality(Holders(M, j)) = 1
            /\ n > 0 =>
                  \A k \in Keys :
                      /\ WalkLen(World, m, 0, k, hash_key(k)) <= n
                      /\ insert_walk(World, m, 0, k, hash_key(k)).index \in 0 .. n - 1
                      /\ (get(World, m, k) = None) = (get_mut(World, m, k) = None)
                      /\ remove_walk(World, m, 0, k, hash_key(k)) = get_mut(World, m, k)

\* a chain of three nodes, each under the right link of the one before
C21_Witness ==
    /\ last.op = "insert"
    /\ order["self"] = <<"k32", "a", "gb">>
    /\ maps["self"].store[1].right = 1
    /\ maps["self"].store[2].right = 2
    /\ WalkLen(World, "self", 0, "gb", hash_key("gb")) = 3

\* what a map is made of, addresses aside: for every node its key bytes, its
\* hash, its value and its links
Shape(W, id) ==
    [i \in 1 .. Len(W.maps[id].store) |->
        [key |-> as_bytes(W, W.maps[id].store[i].key),
         hash |-> W.maps[id].store[i].key.hash,
         value |-> W.maps[id].store[i].value,
         left |-> W.maps[id].store[i].left,
         right |-> W.maps[id].store[i].right]]

\* the world of one map, "fresh", made by StrMap::new() and the inserts of
\* the pairs from the i-th on
RECURSIVE FreshFrom(_, _, _)
FreshFrom(W, pairs, i) ==
    IF i > Len(pairs) THEN W
    ELSE FreshFrom(insert(W, "fresh", pairs[i][1], pairs[i][2]).W, pairs, i + 1)

Fresh(pairs) == FreshFrom([maps |-> [fresh |-> StrMap_new], heap |-> <<>>], pairs, 1)

\* C22: remove of a present key leaves the map as a new map is after the
\* inserts of the surviving pairs in their storage order: the same keys and
\* values in the same order, and the same links.
C22_RemoveIsRebuild ==
    [][(last'.op = "remove" /\ ref[last'.map][last'.key] # None)
          => \E m \in {last'.map} :
             \E survivors \in {WithoutKey(iter(World, m), last'.key)} :
                 /\ Len(survivors) = Len(maps[m].store) - 1
                 /\ Shape(WorldNext, m) = Shape(Fresh(survivors), "fresh")]_vars

\* the first of three nodes was removed: the second is the root now, the
\* third under its left link
C22_Witness ==
    /\ last.op = "remove" /\ last.key = "a" /\ last.ret # None
    /\ order["self"] = <<"gb", "k32">>
    /\ maps["self"].store[1].left = 1
    /\ maps["self"].store[1].right = 0

\* C23: clear() leaves the map empty (len 0, is_empty, every get absent,
\* nothing iterated) with the capacity and the buffer it had; the insert
\* that follows a clear makes the root, at index 0 and with both links 0,
\* and the map holds that one member and nothing of what was cleared.
C23_ClearThenLikeNew ==
    [][/\ last'.op = "clear"
          => \E m \in {last'.map} :
                 /\ len(WorldNext, m) = 0
                 /\ is_empty(WorldNext, m)
                 /\ \A k \in Keys : get(WorldNext, m, k) = None
                 /\ iter(WorldNext, m) = <<>>
                 /\ maps'[m].cap = maps[m].cap
                 /\ maps'[m].base = maps[m].base
       /\ (last.op = "clear" /\ last'.op = "insert" /\ last'.map = last.map)
          => \E m \in {last'.map} :
                 /\ last'.ret = Some(0)
                 /\ len(WorldNext, m) = 1
                 /\ maps'[m].store[1].left = 0
                 /\ maps'[m].store[1].right = 0
                 /\ maps[m].cap > 0 => maps'[m].cap = maps[m].cap
                 /\ iter(WorldNext, m) = <<(<<last'.key, last'.val>>)>>
                 /\ \A k \in Keys :
                        get(WorldNext, m, k)
                            = IF k = last'.key THEN Some(last'.val) ELSE None
                 /\ Shape(WorldNext, m)
                        = Shape(Fresh(<<(<<last'.key, last'.val>>)>>), "fresh")]_vars

\* the insert after the clear of a map that had grown to three members:
\* one node in a buffer of four
C23_Witness ==
    /\ last.op = "insert" /\ last.ret = Some(0)
    /\ Len(maps["self"].store) = 1
    /\ maps["self"].cap = 4
    /\ maps["self"].store[1].left = 0 /\ maps["self"].store[1].right = 0

\* the keys of all maps, each as <<map, index>>
AllKeys == {<<m, i>> : m \in MapIds, i \in 1 .. MaxNodes} \cap
           UNION {{<<m, i>> : i \in 1 .. Len(maps[m].store)} : m \in MapIds}

KeyAt(mi) == maps[mi[1]].store[mi[2]].key

LongKeys == {mi \in AllKeys : KeyAt(mi).len > KEY_BUF_LEN}

\* C24: whatever inserts, overwrites, removes, clears, clones and drops were
\* made, a key of at most 32 bytes owns no heap buffer, a key of more than
\* 32 bytes owns one live heap buffer that holds its bytes and that no other
\* key points to, and the live heap buffers are exactly those of the keys
\* in the maps: none is left behind by a destroyed key, none was released
\* under a key that is still there.
C24_OneOwnershipModePerKey ==
    /\ \A mi \in AllKeys \ LongKeys :
           /\ KeyAt(mi).ptr[1] = "inline"
           /\ KeyAt(mi).ptr[2] = maps[mi[1]].base
           /\ KeyAt(mi).ptr[3] = mi[2] - 1
    /\ \A mi \in LongKeys :
           /\ KeyAt(mi).ptr[1] = "heap"
           /\ KeyAt(mi).ptr[2] \in DOMAIN heap
           /\ Len(KeyBytes[heap[KeyAt(mi).ptr[2]]]) = KeyAt(mi).len
    /\ \A mi \in LongKeys : \A mj \in LongKeys :
           KeyAt(mi).ptr = KeyAt(mj).ptr => mi = mj
    /\ DOMAIN heap = {KeyAt(mi).ptr[2] : mi \in LongKeys}

\* the long key was cloned with the map, then removed from the original:
\* its buffer is released, the buffer of the clone's key is the one left
C24_Witness ==
    /\ last.op = "remove" /\ last.map = "self" /\ last.key = "k33"
    /\ last.ret # None
    /\ order["self"] = <<"k32">>
    /\ order["other"] = <<"k32", "k33">>
    /\ Cardinality(DOMAIN heap) = 1
    /\ maps["other"].store[2].key.ptr[2] \in DOMAIN heap

\* the map that is not m
OtherMap(m) == CHOOSE n \in MapIds : n # m

\* C25: the clone of a map equals it, with the same members in the same
\* order and the same links; the pointer of each of its inline keys is to
\* the key's own record in the clone, each of its long keys has a buffer of
\* its own; and an insert, remove, clear or drop of one of the two maps
\* leaves the other as it was.
C25_CloneIsIndependent ==
    [][/\ last'.op = "clone"
          => \E b \in {last'.map} : \E a \in {OtherMap(b)} :
                 /\ eq(WorldNext, a, b) /\ eq(WorldNext, b, a)
                 /\ iter(WorldNext, b) = iter(World, a)
                 /\ Shape(WorldNext, b) = Shape(World, a)
                 /\ maps'[a] = maps[a]
                 /\ iter(WorldNext, a) = iter(World, a)
                 /\ Len(maps[a].store) > 0 => maps'[b].base # maps'[a].base
                 /\ \A i \in 1 .. Len(maps'[b].store) :
                        LET k == maps'[b].store[i].key
                        IN  /\ k.len <= KEY_BUF_LEN
                               => k.ptr = <<"inline", maps'[b].base, i - 1>>
                            /\ k.len > KEY_BUF_LEN
                               => /\ k.ptr[1] = "heap"
                                  /\ k.ptr[2] \in DOMAIN heap'
                                  /\ k.ptr # maps'[a].store[i].key.ptr
       /\ last'.op \in {"insert", "remove", "clear", "drop"}
          => \E m \in {last'.map} : \E n \in {OtherMap(m)} :
                 /\ maps'[n] = maps[n]
                 /\ iter(WorldNext, n) = iter(World, n)
                 /\ Shape(WorldNext, n) = Shape(World, n)
                 /\ \A k \in CloneKeys : get(WorldNext, n, k) = get(World, n, k)]_vars

\* the clone of a map of two members, the long key first: its root's left
\* link is 1 as in the original, its records and its buffer are its own
C25_Witness ==
    /\ last.op = "clone" /\ last.map = "other"
    /\ order["self"] = <<"k33", "k32">>
    /\ order["other"] = <<"k33", "k32">>
    /\ maps["other"].store[1].left = 1
    /\ maps["other"].base # maps["self"].base
    /\ maps["other"].store[1].key.ptr # maps["self"].store[1].key.ptr
    /\ maps["other"].store[2].key.ptr # maps["self"].store[2].key.ptr

\* the writes generate makes for val when none fails
WritesOf(val, pretty) ==
    1000 - generate(val, Generator_new(pretty, 1000)).g.left

IsPrefix(p, t) == Len(p) <= Len(t) /\ p = SubSeq(t, 1, Len(p))

\* C26: generate returns the failure of a write as soon as it happens,
\* whatever the depth of the value being written: no write is attempted
\* after the failed one, and what the sink holds is what was written before
\* it; generate returns success exactly when no write failed, and the sink
\* then holds the whole text.
C26_FailureReturnedAtOnce ==
    dump.out # None =>
        LET out == dump.out[1]
            whole == generate(dump.val, [dump.gen EXCEPT !.left = -1]).g.code
        IN  /\ out.ok = (out.g.errs = 0)
            /\ out.g.errs <= 1
            /\ out.ok = (dump.gen.left = -1
                            \/ WritesOf(dump.val, dump.gen.pretty) <= dump.gen.left)
            /\ out.ok => out.g.code = whole
            /\ ~out.ok =>
                   /\ out.g.left = 0
                   /\ IsPrefix(out.g.code, whole)
                   /\ out.g.code # whole

\* the third write, the number inside the inner array, failed: "[" and "["
\* are in the sink, and the failure is what generate returned
C26_Witness ==
    /\ dump.out # None
    /\ dump.val = JsonArray(<<JsonArray(<<JsonNumber(1), JsonNull>>)>>)
    /\ dump.gen.left = 2 /\ ~dump.gen.pretty
    /\ ~dump.out[1].ok
    /\ dump.out[1].g.errs = 1
    /\ dump.out[1].g.code = <<"[", "[">>

\* the spaces that follow the line break at i
RECURSIVE SpacesAfter(_, _)
SpacesAfter(t, i) ==
    IF i + 1 <= Len(t) /\ t[i + 1] = " " THEN 1 + SpacesAfter(t, i + 1) ELSE 0

IsContainer(val) == val.t \in {"Array", "Object"}

\* C27: when generate returns success the indentation depth is the one it
\* was entered with, whatever the value and its nesting.  A non-empty
\* container is written one level deeper (the line after its opening
\* bracket) and its closing bracket back at the depth of entry; an empty
\* container, like a scalar, breaks no line and leaves the depth alone.
C27_DepthRestored ==
    (dump.out # None /\ dump.out[1].ok) =>
        LET g0 == dump.gen
            g1 == dump.out[1].g
            t == g1.code
        IN  /\ g1.dent = g0.dent
            /\ ~g0.pretty => g1.dent = 0
            /\ (g0.pretty /\ IsContainer(dump.val) /\ dump.val.v # <<>>) =>
                   /\ t[2] = "\n"
                   /\ SpacesAfter(t, 2) = (g0.dent + 1) * SpacesPerIndent
                   /\ \E i \in 1 .. Len(t) :
                          /\ t[i] = "\n"
                          /\ SpacesAfter(t, i) = g0.dent * SpacesPerIndent
                          /\ i + SpacesAfter(t, i) + 1 = Len(t)
                   /\ \A i \in 1 .. Len(t) :
                          t[i] = "\n" =>
                              SpacesAfter(t, i) >= g0.dent * SpacesPerIndent
            /\ (~IsContainer(dump.val) \/ dump.val.v = <<>>) =>
                   \A i \in 1 .. Len(t) : t[i] \notin {"\n", " "}

\* an object holding an array, written in the pretty mode from depth 1: the
\* depth is 1 again after the closing bracket
C27_Witness ==
    /\ dump.out # None /\ dump.out[1].ok
    /\ dump.gen.pretty /\ dump.gen.dent = 1
    /\ dump.val = JsonObject(<<(<<"b", JsonArray(<<JsonNull, JsonArray(<<>>)>>)>>)>>)
    /\ dump.out[1].g.dent = 1

\* the value tree a sequence of builder calls mirrors: ParseValue reads the
\* calls of one value from the i-th on, ParseItems the elements of an array
\* up to its close, ParseMembers the members of an object up to its close;
\* each gives [val |-> what was read, next |-> the call after it]
RECURSIVE ParseValue(_, _)
RECURSIVE ParseItems(_, _, _)
RECURSIVE ParseMembers(_, _, _)
ParseItems(c, i, items) ==
    IF c[i][1] = "close" THEN [val |-> JsonArray(items), next |-> i + 1]
    ELSE LET r == ParseValue(c, i)
         IN  ParseItems(c, r.next, Append(items, r.val))

ParseMembers(c, i, members) ==
    IF c[i][1] = "close" THEN [val |-> JsonObject(members), next |-> i + 1]
    ELSE LET r == ParseValue(c, i + 1)
         IN  ParseMembers(c, r.next, Append(members, <<c[i][2], r.val>>))

ParseValue(c, i) ==
    CASE c[i][1] = "value" ->
             [val |-> JsonNumber(CHOOSE n \in WriterVals : ToString(n) = c[i][2]),
              next |-> i + 1]
      [] c[i][1] = "array" -> ParseItems(c, i + 1, <<>>)
      [] c[i][1] = "object" -> ParseMembers(c, i + 1, <<>>)

TreeOf(c) == ParseValue(c, 1).val

\* the calls that mirror a value tree: object/key/value/array/close in the
\* order of the members and elements
RECURSIVE Mirror(_)
RECURSIVE MirrorItems(_, _)
RECURSIVE MirrorMembers(_, _)
MirrorItems(items, i) ==
    IF i > Len(items) THEN <<>>
    ELSE Mirror(items[i]) \o MirrorItems(items, i + 1)

MirrorMembers(members, i) ==
    IF i > Len(members) THEN <<>>
    ELSE <<WCall("key", members[i][1])>> \o Mirror(members[i][2])
             \o MirrorMembers(members, i + 1)

Mirror(val) ==
    CASE val.t = "Number" -> <<WCall("value", ToString(val.v[1]))>>
      [] val.t = "Array" ->
             <<WCall("array", "")>> \o MirrorItems(val.v, 1) \o <<WCall("close", "")>>
      [] val.t = "Object" ->
             <<WCall("object", "")>> \o MirrorMembers(val.v, 1) \o <<WCall("close", "")>>

\* C28: the builder driven with the calls that mirror a value tree hands
\* back the text generate writes for that tree in the compact mode; this
\* for every tree the calls can mirror: scalars, empty containers, and
\* containers nested in arrays and in objects.
C28_BuilderAgreesWithGenerate ==
    builder.text # None =>
        \E t \in {TreeOf(calls)} :
            /\ Mirror(t) = calls
            /\ builder.text = Some(consume(generate(t, DumpGenerator_new).g))
            /\ generate(t, DumpGenerator_new).ok

\* [{},[1]] written by array, object, close, array, value, close, close
C28_Witness ==
    /\ builder.text = Some(<<"[", "{", "}", ",", "[", "1", "]", "]">>)
    /\ calls = <<WCall("array", ""), WCall("object", ""), WCall("close", ""),
                 WCall("array", ""), WCall("value", "1"), WCall("close", ""),
                 WCall("close", "")>>
    /\ TreeOf(calls) = JsonArray(<<JsonObject(<<>>), JsonArray(<<JsonNumber(1)>>)>>)

\* what a string-valued JsonValue holds
Content(val) == IF val.t = "Short" THEN Short_as_str(val.v[1]) ELSE val.v[1]

PairSet(pairs) == {pairs[i] : i \in 1 .. Len(pairs)}

\* C29: JsonValue::from(s) is a Short when s has at most MAX_LEN bytes and
\* a String otherwise, and either way it equals s; a JsonValue equals a
\* str exactly when it is a Short or a String of the same content, a
\* number, a bool or an Object exactly when it is of that variant with an
\* equal payload (for an Object: the same members, in any order); the
\* comparison gives the same with the operands exchanged.
C29_ConversionAndEquality ==
    cmp # None =>
        /\ cmp.ret[1] = cmp.ret[2]
        /\ cmp.from # None =>
               /\ cmp.self.t = IF Len(cmp.from[1]) <= MAX_LEN THEN "Short" ELSE "String"
               /\ Content(cmp.self) = cmp.from[1]
               /\ eq_str(cmp.self, cmp.from[1])
               /\ cmp.ret[1] = (cmp.from[1] = cmp.other.v)
        /\ cmp.other.kind = "str" =>
               cmp.ret[1] = (/\ cmp.self.t \in {"Short", "String"}
                             /\ Content(cmp.self) = cmp.other.v)
        /\ cmp.other.kind \in {"Number", "Boolean"} =>
               cmp.ret[1] = (/\ cmp.self.t = cmp.other.kind
                             /\ cmp.self.v[1] = cmp.other.v)
        /\ cmp.other.kind = "Object" =>
               cmp.ret[1] = (/\ cmp.self.t = "Object"
                             /\ PairSet(cmp.self.v) = PairSet(cmp.other.v))

\* a string of exactly MAX_LEN bytes: converted to a Short, equal to itself
C29_Witness ==
    /\ cmp # None /\ cmp.from # None
    /\ Len(cmp.from[1]) = MAX_LEN
    /\ cmp.self.t = "Short"
    /\ cmp.other = [kind |-> "str", v |-> cmp.from[1]]
    /\ cmp.ret = <<TRUE, TRUE>>

====
